---- MODULE Spec2Model ----
(***************************************************************************)
(* A model of pond's windowing core: Duration, Period, Window, DayWindow,  *)
(* the Index-string decoder of util, the streaming WindowedCollection,     *)
(* Collection with its key map and quantile, the percentile, keep and      *)
(* median reducers, the Align and Rate processors, and the Node push       *)
(* graph.                                                                  *)
(*                                                                         *)
(* Strings are sequences of one-character strings, so that formatting      *)
(* (toString, template literals) and parsing (regular expressions, split,  *)
(* parseInt) are computed and not assumed to agree.  A JavaScript number   *)
(* is an exact fraction [num, den] in lowest terms; a Time holds a Date,   *)
(* whose time value is a whole number of milliseconds.                     *)
(***************************************************************************)
EXTENDS Integers, Sequences, FiniteSets, TLC

VARIABLES
    p,          \* SpecPeriod: the Period under test
    nextArg,    \* SpecPeriod: the argument of the last Period.next call
    nextRes,    \* SpecPeriod: the Time that call returned
    timerange,  \* SpecPeriod: the argument of the running Period.within call
    scan,       \* SpecPeriod: local `scan` of Period.within
    result,     \* SpecPeriod: local `result` of Period.within
    ppc,        \* SpecPeriod: position in Period.within
    win,        \* SpecWindow: the Window under test
    arg,        \* SpecWindow: the Time (t1 = t2) or TimeRange of the last call
    indexSet,   \* SpecWindow: what getIndexSet returned, as Index strings
    wpc,        \* SpecWindow: "idle" before the call, "done" after
                \* getIndexSet, "string" after toString
    winStr,     \* SpecWindow: what toString returned
    dayTz,      \* SpecDay: DayWindow._tz of the DayWindow under test
    dayArg,     \* SpecDay: the Time (t1 = t2) or TimeRange of the last call
    dayIndexes, \* SpecDay: what DayWindow.getIndexSet returned
    dpc,        \* SpecDay: "idle" before the call, "done" after it
    coll,       \* SpecCollection: the Collection the last call returned
    call,       \* SpecCollection: the last call, its event and its dedup
    cthrew,     \* SpecCollection: the last call threw a TypeError
    nops,       \* SpecCollection: the number of calls made so far
    align,      \* SpecAlign: the Align processor, its options and _previous
    alignPrior, \* SpecAlign: the _previous the last addEvent call found
    alignEvent, \* SpecAlign: the event of the last addEvent call
    aligned,    \* SpecAlign: the list that call returned
    alignFed,   \* SpecAlign: the number of events fed so far
    rate,       \* SpecRate: the Rate processor, its option and previous
    rateIn,     \* SpecRate, history: the events fed so far
    rated,      \* SpecRate: the list the last addEvent call returned
    ratedAll,   \* SpecRate, history: everything addEvent returned so far
    qValues,    \* SpecQuantile: the field values of the Collection
    qN,         \* SpecQuantile: argument n of quantile
    qInterp,    \* SpecQuantile: argument interp of quantile
    qResults,   \* SpecQuantile: what quantile returned
    qThrew,     \* SpecQuantile: quantile threw an Error
    qpc,        \* SpecQuantile: "idle" before the call, "done" after it
    rValues,    \* SpecReducer: the array the reducer is called with
    rClean,     \* SpecReducer: the clean strategy of the reducer
    rArray,     \* SpecReducer: the caller's array, as the call leaves it
    rResult,    \* SpecReducer: what the reducer returned
    rpc,        \* SpecReducer: "idle" before the call, then its reducer
    durArg,     \* SpecDuration: the string handed to the constructor
    dur,        \* SpecDuration: the Duration constructed
    durThrew,   \* SpecDuration: the constructor threw an Error
    durpc,      \* SpecDuration: "idle" before the call, "done" after it
    called,     \* SpecWindowed: the last call on the WindowedCollection
    aggregated, \* SpecWindowed: what the last call, aggregate, returned
    ungrouped,  \* SpecWindowed: what the last call, ungroup, returned
    nodes,      \* SpecNode: the nodes of the graph, the input node first
    frames,     \* SpecNode: the calls of set that have not returned
    sets,       \* SpecNode, history: the calls of set made so far
    callbacks,  \* SpecNode, history: the callback invocations so far
    inputs,     \* SpecNode, history: the events handed to the input node
    options,    \* Spec: WindowedCollection.options (window, trigger)
    group,      \* Spec: WindowedCollection.group is set (grouping by a field)
    collections,\* Spec: WindowedCollection.collections, in insertion order
    toBeEmitted,\* Spec: what the last addEvent returned
    threw,      \* Spec: the last addEvent threw a TypeError
    fed,        \* Spec, history: the events handed to addEvent so far
    emitted,    \* Spec, history: everything addEvent returned so far
    discarded   \* Spec, history: the keys addEvent has discarded so far

periodVars == <<p, nextArg, nextRes, timerange, scan, result, ppc>>
windowVars == <<win, arg, indexSet, wpc, winStr>>
wcVars == <<options, group, collections, toBeEmitted, threw, fed, emitted,
            discarded>>
dayVars == <<dayTz, dayArg, dayIndexes, dpc>>
collVars == <<coll, call, cthrew, nops>>
alignVars == <<align, alignPrior, alignEvent, aligned, alignFed>>
rateVars == <<rate, rateIn, rated, ratedAll>>
quantileVars == <<qValues, qN, qInterp, qResults, qThrew, qpc>>
reducerVars == <<rValues, rClean, rArray, rResult, rpc>>
durationVars == <<durArg, dur, durThrew, durpc>>
readVars == <<called, aggregated, ungrouped>>
nodeVars == <<nodes, frames, sets, callbacks, inputs>>
moreVars == <<reducerVars, durationVars, readVars, nodeVars>>
laterVars ==
    <<dayVars, collVars, alignVars, rateVars, quantileVars, moreVars>>
vars == <<periodVars, windowVars, wcVars, laterVars>>

----------------------------------------------------------------------------
(* Bounds of the model *)

MaxMult == 3      \* largest multiplier of a generated duration string
MaxT == 6         \* timestamps are drawn from -MaxT .. MaxT (and near 1s)
MaxOffset == 2    \* period offsets are drawn from 0 .. MaxOffset
MaxSpan == 5      \* longest time range handed to Period.within
MaxEvents == 4    \* events handed to one WindowedCollection
MaxStamp == 4     \* their timestamps are drawn from 0 .. MaxStamp
MaxOps == 4       \* calls made on one Collection

----------------------------------------------------------------------------
(* Characters, decimal numerals, parseInt *)

Digits == <<"0", "1", "2", "3", "4", "5", "6", "7", "8", "9">>

IsDigit(c) == c \in {"0", "1", "2", "3", "4", "5", "6", "7", "8", "9"}

DigitVal(c) ==
    ("0" :> 0 @@ "1" :> 1 @@ "2" :> 2 @@ "3" :> 3 @@ "4" :> 4 @@
     "5" :> 5 @@ "6" :> 6 @@ "7" :> 7 @@ "8" :> 8 @@ "9" :> 9)[c]

RECURSIVE NumStr(_)
NumStr(n) ==
    IF n < 10 THEN <<Digits[n + 1]>>
    ELSE NumStr(n \div 10) \o <<Digits[(n % 10) + 1]>>

\* `${n}` for an integer n
IntStr(n) == IF n < 0 THEN <<"-">> \o NumStr(-n) ELSE NumStr(n)

\* length of the run of digits of s that starts at position i
RECURSIVE DigitRun(_, _)
DigitRun(s, i) ==
    IF i <= Len(s) /\ IsDigit(s[i]) THEN 1 + DigitRun(s, i + 1) ELSE 0

RECURSIVE DigitsVal(_, _, _)
DigitsVal(s, i, n) ==
    IF n = 0 THEN 0
    ELSE DigitsVal(s, i, n - 1) * 10 + DigitVal(s[i + n - 1])

Sub(s, i, j) == IF i > j THEN <<>> ELSE SubSeq(s, i, j)

\* parseInt(s, 10): the leading digits of s; NaN when there are none
parseInt(s) ==
    LET n == DigitRun(s, 1)
    IN  IF n = 0 THEN [nan |-> TRUE, val |-> 0]
        ELSE [nan |-> FALSE, val |-> DigitsVal(s, 1, n)]

----------------------------------------------------------------------------
(* Numbers *)

Abs(n) == IF n < 0 THEN -n ELSE n

RECURSIVE GCD(_, _)
GCD(a, b) == IF b = 0 THEN a ELSE GCD(b, a % b)

Rat(n, d) ==
    LET g == GCD(Abs(n), d) IN [num |-> n \div g, den |-> d \div g]

RatAdd(a, b) == Rat(a.num * b.den + b.num * a.den, a.den * b.den)
RatMulInt(k, a) == Rat(k * a.num, a.den)
RatOfInt(k) == [num |-> k, den |-> 1]
RatLeq(a, b) == a.num * b.den <= b.num * a.den
RatLess(a, b) == a.num * b.den < b.num * a.den
\* a / b for b > 0
RatDiv(a, b) == Rat(a.num * b.den, a.den * b.num)
IsWhole(a) == a.den = 1

\* Math.ceil
Ceil(a) == -((-a.num) \div a.den)
\* new Date(number): the time value is the number truncated towards zero
Trunc(a) == IF a.num >= 0 THEN a.num \div a.den ELSE -((-a.num) \div a.den)

----------------------------------------------------------------------------
(* Duration *)

SHORT_UNITS ==
    [n |-> Rat(1, 1000000),
     u |-> Rat(1, 1000),
     l |-> Rat(1, 1),
     s |-> Rat(1000, 1),
     m |-> Rat(1000 * 60, 1),
     h |-> Rat(1000 * 60 * 60, 1),
     d |-> Rat(1000 * 60 * 60 * 24, 1),
     w |-> Rat(1000 * 60 * 60 * 24 * 7, 1)]

DurationUnits == {"n", "u", "l", "s", "m", "h", "d", "w"}

\* /([0-9]+)([nulsmhdw])/.exec(s) from position i on: the leftmost run of
\* digits that a unit letter follows
RECURSIVE DurationRegexExec(_, _)
DurationRegexExec(s, i) ==
    IF i > Len(s) THEN [found |-> FALSE, at |-> 0, n |-> 0]
    ELSE LET n == DigitRun(s, i)
         IN  IF n = 0 THEN DurationRegexExec(s, i + 1)
             ELSE IF i + n <= Len(s) /\ s[i + n] \in DurationUnits
                  THEN [found |-> TRUE, at |-> i, n |-> n]
                  ELSE DurationRegexExec(s, i + n)

NoNumber == [num |-> 0, den |-> 0]      \* undefined / NaN

\* new Duration(arg1) for a string
DurationOfString(s) ==
    LET parts == DurationRegexExec(s, 1)
    IN  [string |-> s,
         duration |->
            IF parts.found
            THEN RatMulInt(DigitsVal(s, parts.at, parts.n),
                           SHORT_UNITS[s[parts.at + parts.n]])
            ELSE NoNumber]

\* new Duration(arg1) for a number of milliseconds
DurationOfNumber(ms) == [string |-> <<>>, duration |-> RatOfInt(ms)]

\* Duration.toString (a Duration built from a number holds a whole number here)
DurationToString(d) ==
    IF d.string # <<>> THEN d.string
    ELSE IntStr(d.duration.num) \o <<"m", "s">>

\* Duration.valueOf
DurationValueOf(d) == d.duration

----------------------------------------------------------------------------
(* Period *)

\* new Period(frequency, offset), the offset in epoch milliseconds
Period(frequency, offset) == [frequency |-> frequency, offset |-> offset]

\* a variant of Period.toString that leaves the offset out
PeriodToStringNoOffset(q) == DurationToString(q.frequency)

\* Period.toString
PeriodToString(q) ==
    IF q.offset # 0
    THEN DurationToString(q.frequency) \o <<"+">> \o IntStr(q.offset)
    ELSE DurationToString(q.frequency)

\* a variant of isAligned that takes no instant as aligned
isAlignedNever(q, t) == FALSE

\* ((+t - +this._offset) / +this._frequency) % 1 === 0
isAligned(q, t) ==
    IsWhole(RatDiv(RatOfInt(t - q.offset), DurationValueOf(q.frequency)))

\* a variant of next that returns an aligned t itself
nextOrSame(q, t) ==
    LET f == DurationValueOf(q.frequency)
        index == Ceil(RatDiv(RatOfInt(t - q.offset), f))
    IN  Trunc(RatAdd(RatMulInt(index, f), RatOfInt(q.offset)))

\* Period.next
next(q, t) ==
    LET f == DurationValueOf(q.frequency)
        index == Ceil(RatDiv(RatOfInt(t - q.offset), f))
        nxt == RatAdd(RatMulInt(index, f), RatOfInt(q.offset))
    IN  IF nxt = RatOfInt(t) THEN Trunc(RatAdd(nxt, f)) ELSE Trunc(nxt)

\* the loop of Period.within, from scan on
RECURSIVE WithinFrom(_, _, _, _)
WithinFrom(q, scanned, end, found) ==
    IF scanned < end
    THEN WithinFrom(q, next(q, scanned), end, Append(found, scanned))
    ELSE found

\* a variant of within that starts after begin also when begin is aligned
withinAfter(q, begin, end) == WithinFrom(q, next(q, begin), end, <<>>)

\* Period.within(timerange(begin, end)), for a frequency of whole
\* milliseconds (with a shorter one the loop need not end)
within(q, begin, end) ==
    WithinFrom(q, IF isAligned(q, begin) THEN begin ELSE next(q, begin),
               end, <<>>)

----------------------------------------------------------------------------
(* Window *)

\* new Window(d, period)
Window(d, period) == [duration |-> d, period |-> period]

\* new Window(d): the period is new Period(d)
WindowOfDuration(d) == Window(d, Period(d, 0))

\* a variant of Window.toString that always writes "<duration>@<period>"
WindowToStringLong(wd) ==
    DurationToString(wd.duration) \o <<"@">> \o PeriodToString(wd.period)

\* Window.toString
WindowToString(wd) ==
    IF DurationValueOf(wd.period.frequency) = DurationValueOf(wd.duration)
    THEN PeriodToString(wd.period)
    ELSE DurationToString(wd.duration) \o <<"@">> \o PeriodToString(wd.period)

\* `${prefix}-${periodIndex}`, the string an Index is built from
IndexString(prefix, periodIndex) == prefix \o <<"-">> \o IntStr(periodIndex)

\* OrderedSet.add
OrderedSetAdd(set, x) ==
    IF \E i \in 1..Len(set) : set[i] = x THEN set ELSE Append(set, x)

\* the loop of getIndexSet, from periodIndex on
RECURSIVE IndexLoop(_, _, _, _, _)
IndexLoop(prefix, f, t2, periodIndex, res) ==
    IF RatLeq(RatMulInt(periodIndex, f), RatOfInt(t2))
    THEN IndexLoop(prefix, f, t2, periodIndex + 1,
                   OrderedSetAdd(res, IndexString(prefix, periodIndex)))
    ELSE res

\* Window.getIndexSet for the Time t1 = t2 or the TimeRange [t1, t2]
getIndexSet(wd, t1, t2) ==
    LET prefix == WindowToString(wd)
        f == DurationValueOf(wd.period.frequency)
        d == DurationValueOf(wd.duration)
        \* time(+t1 - +this._duration)
        from == Trunc(RatAdd(RatOfInt(t1), RatMulInt(-1, d)))
        scanBegin == next(wd.period, from)
        periodIndex == Ceil(RatDiv(RatOfInt(scanBegin), f))
    IN  IndexLoop(prefix, f, t2, periodIndex, <<>>)

----------------------------------------------------------------------------
(* util: the Index-string decoder *)

\* the first position from i on at which sep occurs in s, or 0
RECURSIVE IndexOf(_, _, _)
IndexOf(s, sep, i) ==
    IF i + Len(sep) - 1 > Len(s) THEN 0
    ELSE IF SubSeq(s, i, i + Len(sep) - 1) = sep THEN i
    ELSE IndexOf(s, sep, i + 1)

\* String.split for a separator of one or more characters
RECURSIVE Split(_, _)
Split(s, sep) ==
    LET i == IndexOf(s, sep, 1)
    IN  IF i = 0 THEN <<s>>
        ELSE <<Sub(s, 1, i - 1)>> \o Split(Sub(s, i + Len(sep), Len(s)), sep)

IndexUnits == {"s", "m", "h", "d", "l", "u", "n"}

NoMatch == [matched |-> FALSE, d |-> <<>>, frequency |-> <<>>,
            offset |-> <<>>, i |-> <<>>]

\* (\+([0-9]+))*-([0-9]+)$ from position i on; offset is the last group 9
RECURSIVE IndexRegexTail(_, _, _, _, _)
IndexRegexTail(s, i, d, frequency, offset) ==
    IF i > Len(s) THEN NoMatch
    ELSE IF s[i] = "+"
    THEN LET n == DigitRun(s, i + 1)
         IN  IF n = 0 THEN NoMatch
             ELSE IndexRegexTail(s, i + 1 + n, d, frequency,
                                 Sub(s, i + 1, i + n))
    ELSE IF s[i] = "-"
    THEN LET n == DigitRun(s, i + 1)
         IN  IF n > 0 /\ i + n = Len(s)
             THEN [matched |-> TRUE, d |-> d, frequency |-> frequency,
                   offset |-> offset, i |-> Sub(s, i + 1, i + n)]
             ELSE NoMatch
    ELSE NoMatch

\* indexStringRegex.exec(s) from position i on:
\* ^((([0-9]+)([smhdlun]))@)*(([0-9]+)([smhdlun]))(\+([0-9]+))*-([0-9]+)$
\* d is the last group 1, the text "<duration>@"
RECURSIVE IndexRegexExec(_, _, _)
IndexRegexExec(s, i, d) ==
    LET n == DigitRun(s, i)
    IN  IF n = 0 \/ i + n > Len(s) \/ s[i + n] \notin IndexUnits THEN NoMatch
        ELSE IF i + n + 1 <= Len(s) /\ s[i + n + 1] = "@"
        THEN IndexRegexExec(s, i + n + 2, Sub(s, i, i + n + 1))
        ELSE IndexRegexTail(s, i + n + 1, d, Sub(s, i, i + n), <<>>)

isIndexString(indexString) == IndexRegexExec(indexString, 1, <<>>).matched

decodeIndexString(indexString) ==
    LET parts == IndexRegexExec(indexString, 1, <<>>)
        decodedPeriod ==
            Period(DurationOfString(parts.frequency),
                   IF parts.offset # <<>> THEN parseInt(parts.offset).val
                   ELSE 0)
    IN  [decodedPeriod |-> decodedPeriod,
         decodedDuration |->
            IF parts.d # <<>> THEN DurationOfString(parts.d)
            ELSE decodedPeriod.frequency,
         decodedIndex |-> parseInt(parts.i).val]

Undefined == [defined |-> FALSE, calendar |-> FALSE, begin |-> 0, end |-> 0]

\* An instant that moment computes from a calendar date.  The dates the
\* decoder is handed here lie in the first centuries or after the year 3000:
\* the instant is kept only as far before, or far after, every timestamp.
CalendarInstant(year) ==
    IF year < 1970 THEN -(2 * 1000 * 1000 * 1000) ELSE 2 * 1000 * 1000 * 1000

\* moment.tz([year, month - 1, day], tz).isValid(); without a day moment
\* takes the first.  Days 29 to 31, valid in some months only, are taken as
\* invalid: no Index string of a Window leads to them.
MomentIsValid(year, month, day) ==
    /\ month - 1 \in 0..11
    /\ day \in 1..28

CalendarRange(year, month, day) ==
    IF MomentIsValid(year, month, day)
    THEN [defined |-> TRUE, calendar |-> TRUE,
          begin |-> CalendarInstant(year), end |-> CalendarInstant(year)]
    ELSE Undefined

\* util.timeRangeFromIndexString
timeRangeFromIndexString(indexString) ==
    LET parts == Split(indexString, <<"-">>)
    IN  CASE Len(parts) = 3 ->
                IF /\ ~parseInt(parts[1]).nan
                   /\ ~parseInt(parts[2]).nan
                   /\ ~parseInt(parts[3]).nan
                THEN CalendarRange(parseInt(parts[1]).val,
                                   parseInt(parts[2]).val,
                                   parseInt(parts[3]).val)
                ELSE Undefined
          [] Len(parts) = 2 ->
                IF isIndexString(indexString)
                THEN LET dec == decodeIndexString(indexString)
                         beginTimestamp ==
                            RatMulInt(dec.decodedIndex,
                                      DurationValueOf(dec.decodedPeriod.frequency))
                         endTimestamp ==
                            RatAdd(beginTimestamp,
                                   DurationValueOf(dec.decodedDuration))
                     IN  [defined |-> TRUE, calendar |-> FALSE,
                          begin |-> Trunc(beginTimestamp),
                          end |-> Trunc(endTimestamp)]
                ELSE IF ~parseInt(parts[1]).nan /\ ~parseInt(parts[2]).nan
                THEN CalendarRange(parseInt(parts[1]).val,
                                   parseInt(parts[2]).val, 1)
                ELSE Undefined
          [] Len(parts) = 1 ->
                IF ~parseInt(parts[1]).nan
                THEN CalendarRange(parseInt(parts[1]).val, 1, 1)
                ELSE Undefined
          [] OTHER -> Undefined

----------------------------------------------------------------------------
(* Inputs *)

WholeUnits == {"l", "s"}

DurStr(n, u) == NumStr(n) \o <<u>>

\* durations of a whole number of milliseconds
WholeDurations ==
    {DurationOfString(DurStr(n, u)) : n \in 1..MaxMult, u \in WholeUnits}
    \cup {DurationOfNumber(n) : n \in 1..MaxMult}

\* durations below one millisecond, or with a fraction of one
SubMsDurations ==
    {DurationOfString(DurStr(n, "u")) : n \in {500, 1500}}
    \cup {DurationOfString(DurStr(500000, "n"))}

Durations == WholeDurations \cup SubMsDurations

Periods == {Period(f, o) : f \in Durations, o \in 0..MaxOffset}

\* durations in milliseconds, and a minute, an hour, a day and a week
MsDurations == {DurationOfString(DurStr(n, "l")) : n \in 1..MaxMult}
LongDurations == {DurationOfString(DurStr(1, u)) : u \in {"m", "h", "d", "w"}}

\* window(d), fixed, d a duration string or a number of milliseconds
FixedWindows ==
    {WindowOfDuration(d) : d \in Durations \cup LongDurations}
    \cup {WindowOfDuration(DurationOfNumber(n)) : n \in 1..MaxMult}

\* window(d, period(f, offset)): fixed, sliding (d > f) or with gaps (d < f)
PeriodWindows ==
    {Window(d, Period(f, o)) :
        d \in MsDurations, f \in MsDurations, o \in 0..MaxOffset}
    \cup {Window(DurationOfString(DurStr(1500, "u")),
                 Period(DurationOfString(DurStr(500, "u")), 0))}

Windows == FixedWindows \cup PeriodWindows

\* the windows toString alone is called on: 30 minutes, fixed and sliding
\* every 10 seconds, without and with the offset of the window tests counted
\* in seconds (in milliseconds it is beyond the integers at hand), and a
\* window of 60 seconds whose period is written as one minute
TestOffsets == {0, 1429669680}

StringWindows ==
    {Window(DurationOfString(DurStr(30, "m")),
            Period(DurationOfString(DurStr(n, u)), o)) :
        n \in {10, 30}, u \in {"s", "m"}, o \in TestOffsets}
    \cup {Window(DurationOfString(DurStr(60, "s")),
                 Period(DurationOfString(DurStr(1, "m")), o)) :
            o \in 0..MaxOffset}

Ms(n) == DurationOfString(DurStr(n, "l"))

\* the windows of the streaming specification: fixed, sliding with
\* d = 2f and with d < 2f, with gaps, fixed with a period offset, fixed
\* below one millisecond, and fixed with the duration given as a number
StreamWindows ==
    {WindowOfDuration(Ms(2)),
     Window(Ms(2), Period(Ms(1), 0)),
     Window(Ms(3), Period(Ms(2), 0)),
     Window(Ms(1), Period(Ms(2), 0)),
     Window(Ms(2), Period(Ms(2), 1)),
     WindowOfDuration(DurationOfString(DurStr(500, "u"))),
     WindowOfDuration(DurationOfNumber(2))}

Triggers == {"perEvent", "onDiscardedWindow"}

Groups == {<<"a">>, <<"b">>}

\* windowed({window, trigger}) and windowed({window, trigger}, "field")
StreamOptions == [window : StreamWindows, trigger : Triggers]

GroupedStreamWindows ==
    {WindowOfDuration(Ms(2)), Window(Ms(2), Period(Ms(1), 0))}

Events(grp, id) ==
    [id : {id}, timestamp : 0..MaxStamp,
     group : IF grp THEN Groups ELSE {<<>>}]

OneSecond == Trunc(SHORT_UNITS.s)

Times == (-MaxT..MaxT) \cup {OneSecond + j : j \in -MaxOffset..MaxOffset}

TimeRanges ==
    {[begin |-> t1, end |-> t2] : t1 \in Times, t2 \in Times} \cap
    {r \in [begin : Times, end : Times] :
        r.begin <= r.end /\ r.end - r.begin <= MaxSpan}

\* period(duration("5m")), also with an offset, and the ranges
\* timerange(t, t + 17m) for t at and near whole minutes
OneMinute == Trunc(SHORT_UNITS.m)

FiveMinutePeriods ==
    {Period(DurationOfString(DurStr(5, "m")), o) : o \in 0..MaxOffset}

MinuteTimes ==
    {k * OneMinute + j : k \in 0..(MaxSpan + 1), j \in -MaxOffset..MaxOffset}

SeventeenMinuteRanges ==
    {[begin |-> t, end |-> t + 17 * OneMinute] : t \in MinuteTimes}

\* the ranges within is called with: short ones for the short periods
RangesOf(q) ==
    IF q \in FiveMinutePeriods THEN SeventeenMinuteRanges ELSE TimeRanges

----------------------------------------------------------------------------
(* The index sets and the decoded time ranges of the streaming             *)
(* specification's windows and timestamps, each computed once              *)

Range(seq) == {seq[i] : i \in 1..Len(seq)}

StreamIndexSets ==
    [wd \in StreamWindows |->
        [t \in 0..MaxStamp |-> getIndexSet(wd, t, t)]]

StreamWindowKeys ==
    UNION {Range(StreamIndexSets[wd][t]) : wd \in StreamWindows, t \in 0..MaxStamp}

StreamKeys ==
    StreamWindowKeys \cup
    {g \o <<":", ":">> \o windowKey : g \in Groups, windowKey \in StreamWindowKeys}

----------------------------------------------------------------------------
(* WindowedCollection *)

\* Immutable.Map, kept as the sequence of its entries: has, get, set, keys
Has(map, key) == \E i \in 1..Len(map) : map[i].key = key

Get(map, key) == map[CHOOSE i \in 1..Len(map) : map[i].key = key].events

Set(map, key, events) ==
    IF Has(map, key)
    THEN [i \in 1..Len(map) |->
            IF map[i].key = key THEN [key |-> key, events |-> events]
            ELSE map[i]]
    ELSE Append(map, [key |-> key, events |-> events])

Keys(map) == {map[i].key : i \in 1..Len(map)}

\* SortedCollection.addEvent: the bucket is kept in chronological order, the
\* event goes behind the events that are not later than it, none is dropped
SortedCollectionAddEvent(events, event) ==
    LET n == Cardinality({i \in 1..Len(events) :
                            events[i].timestamp <= event.timestamp})
    IN  SubSeq(events, 1, n) \o <<event>> \o SubSeq(events, n + 1, Len(events))

\* a variant of getEventGroups that leaves the group out of the key
getEventGroupsUngrouped(opts, grp, event) ==
    StreamIndexSets[opts.window][event.timestamp]

\* WindowedCollection.getEventGroups
getEventGroups(opts, grp, event) ==
    LET windowKeyList == StreamIndexSets[opts.window][event.timestamp]
    IN  [i \in 1..Len(windowKeyList) |->
            IF grp THEN event.group \o <<":", ":">> \o windowKeyList[i]
            ELSE windowKeyList[i]]

\* the window key of a collection key
WindowKeyOf(collectionKey) ==
    LET parts == Split(collectionKey, <<":", ":">>)
    IN  IF Len(parts) > 1 THEN parts[2] ELSE collectionKey

\* util.timeRangeFromIndexString(windowKey) for the key of a collection
StreamRanges ==
    [key \in StreamKeys |-> timeRangeFromIndexString(WindowKeyOf(key))]

\* keys.forEach of addEvent: [collections, toBeEmitted] after keys[1..n]
RECURSIVE AddToCollections(_, _, _, _, _)
AddToCollections(map, keys, n, event, emitEveryEvent) ==
    IF n = 0 THEN [collections |-> map, toBeEmitted |-> <<>>]
    ELSE LET before == AddToCollections(map, keys, n - 1, event, emitEveryEvent)
             key == keys[n]
             targetCollection ==
                IF Has(before.collections, key)
                THEN Get(before.collections, key)
                ELSE <<>>
             after ==
                Set(before.collections, key,
                    SortedCollectionAddEvent(targetCollection, event))
         IN  [collections |-> after,
              toBeEmitted |->
                IF emitEveryEvent
                THEN Append(before.toBeEmitted,
                            [key |-> key, events |-> Get(after, key)])
                ELSE before.toBeEmitted]

\* variants of the keep test: one keeps a bucket at the very end of its
\* range, one drops it one millisecond early
KeepTestLate(event, range) == event.timestamp <= range.end

KeepTestEarly(event, range) == event.timestamp + 1 < range.end

\* +event.timestamp() < +range.end(), range the decoded window key
KeepTest(event, range) == event.timestamp < range.end

\* a variant of the partition that never discards
PartitionAll(map, event, flag, n) == IF flag THEN map ELSE <<>>

\* this.collections.forEach of addEvent: the entries map[i], i in 1..n,
\* that the keep test puts into keep (flag TRUE) or discard (flag FALSE)
RECURSIVE Partition(_, _, _, _)
Partition(map, event, flag, n) ==
    IF n = 0 THEN <<>>
    ELSE IF KeepTest(event, StreamRanges[map[n].key]) = flag
    THEN Append(Partition(map, event, flag, n - 1), map[n])
    ELSE Partition(map, event, flag, n - 1)

\* every key of the map decodes to a time range
RangesDefined(map) ==
    \A i \in 1..Len(map) : StreamRanges[map[i].key].defined

\* a variant of DiscardPast that emits the discarded buckets whatever the
\* trigger is
DiscardPastEmitting(opts, event, added) ==
    IF ~RangesDefined(added.collections)
    THEN [threw |-> TRUE, collections |-> added.collections,
          toBeEmitted |-> <<>>, discard |-> <<>>]
    ELSE [threw |-> FALSE,
          collections |->
            Partition(added.collections, event, TRUE, Len(added.collections)),
          toBeEmitted |->
            added.toBeEmitted \o
            Partition(added.collections, event, FALSE, Len(added.collections)),
          discard |->
            Partition(added.collections, event, FALSE, Len(added.collections))]

\* addEvent from "Discard past collections" on; reading .end() of an
\* undefined time range throws a TypeError, which leaves this.collections
\* as the first loop set it
DiscardPast(opts, event, added) ==
    IF ~RangesDefined(added.collections)
    THEN [threw |-> TRUE, collections |-> added.collections,
          toBeEmitted |-> <<>>, discard |-> <<>>]
    ELSE [threw |-> FALSE,
          collections |->
            Partition(added.collections, event, TRUE, Len(added.collections)),
          toBeEmitted |->
            IF opts.trigger = "onDiscardedWindow"
            THEN added.toBeEmitted \o
                 Partition(added.collections, event, FALSE,
                           Len(added.collections))
            ELSE added.toBeEmitted,
          discard |->
            Partition(added.collections, event, FALSE, Len(added.collections))]

\* addEvent up to "Discard past collections"
AddToKeys(map, keys, event, emitEveryEvent) ==
    AddToCollections(map, keys, Len(keys), event, emitEveryEvent)

\* WindowedCollection.addEvent
addEvent(opts, grp, map, event) ==
    DiscardPast(opts, event,
                AddToKeys(map, getEventGroups(opts, grp, event), event,
                          opts.trigger = "perEvent"))

----------------------------------------------------------------------------
(* DayWindow.  Its instants are whole seconds since the epoch (the         *)
(* millisecond values of 2015 do not fit the model checker's integers); a  *)
(* timezone is its name and its offset from UTC, which is fixed over the   *)
(* days the inputs span, so that adding a day adds 24 hours.               *)

SecondsPerDay == 86400

Zone(name, hours) == [name |-> name, utcOffset |-> hours * 3600]

\* the zones of the tests, with their offsets of April 2015
Zones ==
    { Zone("America/Los_Angeles", -7), Zone("America/New_York", -4),
      Zone("Etc/UTC", 0) }

\* moment(+t).tz(tz): the local calendar day of instant t, counted from
\* 1970-01-01
LocalDay(t, tz) == (t + tz.utcOffset) \div SecondsPerDay

\* the proleptic Gregorian date of day number z
CivilFromDays(z) ==
    LET z1 == z + 719468
        era == z1 \div 146097
        doe == z1 - era * 146097
        yoe == (doe - doe \div 1460 + doe \div 36524 - doe \div 146096)
                    \div 365
        doy == doe - (365 * yoe + yoe \div 4 - yoe \div 100)
        mp == (5 * doy + 2) \div 153
        m == IF mp < 10 THEN mp + 3 ELSE mp - 9
    IN  [year |-> yoe + era * 400 + (IF m <= 2 THEN 1 ELSE 0),
         month |-> m,
         day |-> doy - (153 * mp + 2) \div 5 + 1]

\* a numeral padded with zeros to at least n characters
ZeroPad(k, n) ==
    LET d == NumStr(k)
    IN  [i \in 1..(IF Len(d) < n THEN n - Len(d) ELSE 0) |-> "0"] \o d

\* moment.format("YYYY-MM-DD")
FormatDay(t, tz) ==
    LET c == CivilFromDays(LocalDay(t, tz))
    IN  ZeroPad(c.year, 4) \o <<"-">> \o ZeroPad(c.month, 2)
            \o <<"-">> \o ZeroPad(c.day, 2)

\* the loop of DayWindow.getIndexSet: tt and t1 are one moment, which
\* tt.add(1, "d") moves on by a day, and the loop runs while that moment is
\* not after t2
RECURSIVE DayLoop(_, _, _, _)
DayLoop(tz, tt, t2, results) ==
    IF tt <= t2
    THEN DayLoop(tz, tt + SecondsPerDay, t2,
                 OrderedSetAdd(results, FormatDay(tt, tz)))
    ELSE results

\* DayWindow.getIndexSet, of time(t1) when t1 = t2 and of timerange(t1, t2)
DayGetIndexSet(tz, t1, t2) == DayLoop(tz, t1, t2, <<>>)

\* the instant of the day-index test, 2015-04-22T03:30:00Z, and instants a
\* quarter of a day apart around it
TestInstant == 1429673400
QuarterDay == 21600
DayTimes == {TestInstant + k * QuarterDay : k \in -MaxSpan..MaxSpan}

----------------------------------------------------------------------------
(* Collection.  An Event is its key (a timestamp) and the value of its one *)
(* field; _events is a sequence, whose position i of the code is element   *)
(* i + 1; _keyMap is a function from the keys it has to sets of positions. *)

Event(key, value) == [key |-> key, value |-> value]

\* what Immutable.List.get returns for a position the list does not have
undefined == Event(-1, 0)

\* Immutable.Map()
EmptyMap == [k \in {} |-> {}]

\* Immutable.Map.set
MapSet(map, k, v) ==
    [x \in DOMAIN map \cup {k} |-> IF x = k THEN v ELSE map[x]]

\* Immutable.Map.remove
MapRemove(map, k) == [x \in DOMAIN map \ {k} |-> map[x]]

\* Collection.buildKeyMap, and the same loop in setEvents
buildKeyMap(events) ==
    [k \in {events[i].key : i \in 1..Len(events)} |->
        {i - 1 : i \in {j \in 1..Len(events) : events[j].key = k}}]

\* Collection.clone
clone(events, keyMap) == [events |-> events, keyMap |-> keyMap]

\* new Collection()
EmptyCollection == clone(<<>>, EmptyMap)

\* the outcome of a call: the Collection it returns, or a TypeError
Returns(col) == [threw |-> FALSE, collection |-> col]
Throws == [threw |-> TRUE, collection |-> EmptyCollection]

\* the members of an Immutable.Set of positions, in the order they are
\* visited
RECURSIVE Ascending(_)
Ascending(S) ==
    IF S = {}
    THEN <<>>
    ELSE LET m == CHOOSE x \in S : \A y \in S : x <= y
         IN  <<m>> \o Ascending(S \ {m})

\* Immutable.List.get
ListGet(list, i) ==
    IF i \in 0..(Len(list) - 1) THEN list[i + 1] ELSE undefined

\* Immutable.Set.map(...).toList(): the images, equal ones once
RECURSIVE MapToList(_, _, _)
MapToList(list, indexes, sofar) ==
    IF indexes = <<>>
    THEN sofar
    ELSE MapToList(list, Tail(indexes),
                   OrderedSetAdd(sofar, ListGet(list, Head(indexes))))

\* Collection.atKey: a TypeError when the key map has no entry for the key
atKey(col, key) ==
    IF key \in DOMAIN col.keyMap
    THEN [threw |-> FALSE,
          list |-> MapToList(col.events, Ascending(col.keyMap[key]), <<>>)]
    ELSE [threw |-> TRUE, list |-> <<>>]

\* this._events.filterNot(duplicate => duplicate.getKey() ... === k)
RECURSIVE WithoutKey(_, _)
WithoutKey(events, k) ==
    IF events = <<>>
    THEN <<>>
    ELSE IF Head(events).key = k
         THEN WithoutKey(Tail(events), k)
         ELSE <<Head(events)>> \o WithoutKey(Tail(events), k)

\* this._events.filterNot((event, i) => indices.has(i)), from position i on
RECURSIVE WithoutPositions(_, _, _)
WithoutPositions(events, indices, i) ==
    IF i >= Len(events)
    THEN <<>>
    ELSE (IF i \in indices THEN <<>> ELSE <<events[i + 1]>>)
            \o WithoutPositions(events, indices, i + 1)

\* events.reduce((sum, e) => sum + e.get("a"), 0)
RECURSIVE SumOf(_)
SumOf(events) ==
    IF events = <<>> THEN 0 ELSE Head(events).value + SumOf(Tail(events))

\* the dedup function of the documentation, which sums the duplicates into
\* one Event of key t; e.get throws on an undefined
SumDedup(events, t) ==
    IF \E i \in 1..Len(events) : events[i] = undefined
    THEN [threw |-> TRUE, event |-> undefined]
    ELSE [threw |-> FALSE, event |-> Event(t, SumOf(events))]

\* the ways to call addEvent: without dedup, with dedup = true, and with
\* the summing dedup function
Dedups == {"none", "true", "sum"}

\* addEvent's conflicts, when it looks for them
Conflicts(col, event, dedup) ==
    IF dedup = "none"
    THEN [threw |-> FALSE, list |-> <<>>]
    ELSE atKey(col, event.key)

\* addEvent's e, the event to be added
Resolved(conflicts, event, dedup) ==
    IF dedup = "sum" /\ Len(conflicts) > 0
    THEN SumDedup(Append(conflicts, event), event.key)
    ELSE [threw |-> FALSE, event |-> event]

\* addEvent's events before the push
Deduped(col, conflicts, k) ==
    IF Len(conflicts) > 0 THEN WithoutKey(col.events, k) ELSE col.events

\* addEvent's indicies before the add
Indicies(col, conflicts, k) ==
    IF Len(conflicts) > 0 \/ k \notin DOMAIN col.keyMap
    THEN {}
    ELSE col.keyMap[k]

\* addEvent, once conflicts and e are known
Pushed(col, conflicts, e, k) ==
    clone(Append(Deduped(col, conflicts, k), e),
          MapSet(col.keyMap, k,
                 Indicies(col, conflicts, k)
                    \cup {Len(Deduped(col, conflicts, k))}))

\* Collection.addEvent
CollectionAddEvent(col, event, dedup) ==
    IF Conflicts(col, event, dedup).threw
    THEN Throws
    ELSE IF Resolved(Conflicts(col, event, dedup).list, event, dedup).threw
         THEN Throws
         ELSE Returns(Pushed(col, Conflicts(col, event, dedup).list,
                Resolved(Conflicts(col, event, dedup).list, event,
                         dedup).event,
                event.key))

\* Collection.removeEvents: indices is undefined when the key map has no
\* entry for the key, and indices.has then throws at the first event
removeEvents(col, key) ==
    IF key \notin DOMAIN col.keyMap
    THEN IF col.events = <<>> THEN Returns(col) ELSE Throws
    ELSE Returns(clone(WithoutPositions(col.events, col.keyMap[key], 0),
                       MapRemove(col.keyMap, key)))

\* Collection.setEvents
setEvents(events) == clone(events, buildKeyMap(events))

\* Immutable.List.slice(begin, end), for 0 <= begin and 0 <= end
ListSlice(list, begin, end) ==
    LET stop == IF end < Len(list) THEN end ELSE Len(list)
    IN  [i \in 1..(IF begin < stop THEN stop - begin ELSE 0) |->
            list[begin + i]]

\* Collection.slice
slice(col, begin, end) == setEvents(ListSlice(col.events, begin, end))

\* Collection.rest
rest(col) == setEvents(ListSlice(col.events, 1, Len(col.events)))

\* Collection.filter, with the predicate e => e.getKey() is not k
filter(col, k) == setEvents(WithoutKey(col.events, k))

\* Immutable.List.takeLast
ListTakeLast(list, amount) ==
    ListSlice(list, IF amount < Len(list) THEN Len(list) - amount ELSE 0,
              Len(list))

\* Collection.takeLast
takeLast(col, amount) ==
    clone(ListTakeLast(col.events, amount),
          buildKeyMap(ListTakeLast(col.events, amount)))

\* the two keys of the documentation's examples, as timestamps
CollectionKeys == {0, 1}

\* the field value of the event of the n-th call: a power of two, so that a
\* sum tells which events went into it
RECURSIVE FieldValue(_)
FieldValue(n) == IF n = 0 THEN 1 ELSE 2 * FieldValue(n - 1)

----------------------------------------------------------------------------
(* Align.  An event is its timestamp and the value of the one aligned      *)
(* field, a; a value is a number (a fraction) or null.  A limit of 0 is    *)
(* the default, null.                                                      *)

null == [num |-> 0, den |-> 0]

RatMul(a, b) == Rat(a.num * b.num, a.den * b.den)
RatSub(a, b) == RatAdd(a, RatMulInt(-1, b))

AlignEvent(t, a) == [time |-> t, a |-> a]

\* new Align({fieldSpec: "a", period, method, limit})
Align(period, method, limit) ==
    [period |-> period, method |-> method, limit |-> limit,
     hasPrevious |-> FALSE, previous |-> AlignEvent(0, null)]

\* Align.isAligned
AlignIsAligned(al, event) == isAligned(al.period, event.time)

\* Align.getBoundaries
getBoundaries(al, event) ==
    IF al.previous.time = event.time
    THEN <<>>
    ELSE within(al.period, al.previous.time, event.time)

\* Align.interpolateHold
interpolateHold(al, boundaryTime, setNone) ==
    AlignEvent(boundaryTime, IF setNone THEN null ELSE al.previous.a)

\* Align.interpolateLinear, for numeric values
interpolateLinear(al, boundaryTime, event) ==
    AlignEvent(boundaryTime,
        RatAdd(al.previous.a,
               RatMul(RatDiv(RatOfInt(boundaryTime - al.previous.time),
                             RatOfInt(event.time - al.previous.time)),
                      RatSub(event.a, al.previous.a))))

\* the body of boundaries.forEach in Align.addEvent
OutputEvent(al, boundaries, boundaryTime, event) ==
    IF al.limit # 0 /\ Len(boundaries) > al.limit
    THEN interpolateHold(al, boundaryTime, TRUE)
    ELSE IF al.method = "linear"
         THEN interpolateLinear(al, boundaryTime, event)
         ELSE interpolateHold(al, boundaryTime, FALSE)

\* Align.addEvent on a later event, the boundaries known
AlignOutputs(al, boundaries, event) ==
    [i \in 1..Len(boundaries) |->
        OutputEvent(al, boundaries, boundaries[i], event)]

\* Align.addEvent: the list it returns.  For the first event the list
\* returned is a new, empty one, whatever was pushed to eventList.
AlignAddEvent(al, event) ==
    IF ~al.hasPrevious
    THEN <<>>
    ELSE AlignOutputs(al, getBoundaries(al, event), event)

\* Align.addEvent: this._previous = event
AlignHeld(al, event) ==
    [al EXCEPT !.hasPrevious = TRUE, !.previous = event]

\* the periods of the aligners: whole milliseconds, and 5 seconds
FiveSeconds == DurationOfString(DurStr(5, "s"))
AlignPeriods ==
    {Period(Ms(n), o) : n \in 1..MaxMult, o \in 0..MaxOffset}
    \cup {Period(FiveSeconds, o) : o \in 0..MaxOffset}

AlignMethods == {"linear", "hold"}

\* limit: the default and 1
AlignLimits == {0, 1}

\* the timestamps fed to an aligner: for the 5-second period, times at and
\* near every half period
HalfPeriod == 2500
AlignTimes(q) ==
    IF q.frequency = FiveSeconds
    THEN {k * HalfPeriod + j : k \in 0..MaxSpan, j \in 0..MaxOffset}
    ELSE 0..MaxT

\* the field value of the n-th event: 0, 10, 20, ...
AlignValue(n) == RatOfInt(10 * (n - 1))

----------------------------------------------------------------------------
(* Rate.  An event is its timestamp and the value of the one field, a; an  *)
(* output is its key, a time range, and the value of a_rate: a fraction,   *)
(* null, or what a division by zero gives.                                 *)

Infinity == [num |-> 1, den |-> 0]
MinusInfinity == [num |-> -1, den |-> 0]
NaN == [num |-> 0, den |-> -1]

\* new Rate({fieldSpec: "a", allowNegative})
Rate(allowNegative) ==
    [allowNegative |-> allowNegative, hasPrevious |-> FALSE,
     previous |-> AlignEvent(0, null)]

\* timerange(begin, end)
timerange_(begin, end) == [begin |-> begin, end |-> end]

\* (currentVal - previousVal) / deltaTime, deltaTime the seconds between
\* the two timestamps
Quotient(dv, dt) ==
    IF dt # 0 THEN Rat(dv * 1000, dt)
    ELSE IF dv > 0 THEN Infinity
    ELSE IF dv < 0 THEN MinusInfinity
    ELSE NaN

\* rate < 0
IsNegative(x) == x.den # -1 /\ x.num < 0

\* the a_rate field of Rate.getRate, for numeric values
RateValue(r, event) ==
    LET x == Quotient(event.a.num - r.previous.a.num,
                      event.time - r.previous.time)
    IN  IF ~r.allowNegative /\ IsNegative(x) THEN null ELSE x

\* Rate.getRate
getRate(r, event) ==
    [key |-> timerange_(r.previous.time, event.time),
     a_rate |-> RateValue(r, event)]

\* Rate.addEvent: the list it returns
RateAddEvent(r, event) ==
    IF ~r.hasPrevious THEN <<>> ELSE <<getRate(r, event)>>

\* a variant of RateHeld that keeps the event held first
RateHeldFirst(r, event) ==
    IF r.hasPrevious
    THEN r
    ELSE [r EXCEPT !.hasPrevious = TRUE, !.previous = event]

\* Rate.addEvent: this.previous = event
RateHeld(r, event) == [r EXCEPT !.hasPrevious = TRUE, !.previous = event]

\* the events fed to a Rate: whole values at timestamps 0 .. MaxStamp
RateEvents ==
    {AlignEvent(t, RatOfInt(v)) : t \in 0..MaxStamp, v \in 0..MaxOffset}

----------------------------------------------------------------------------
(* Collection.quantile and the percentile reducer, over the values of one  *)
(* field: whole numbers on the way in, fractions on the way out.  The      *)
(* fractions are exact; the rounding of floating-point numbers is not      *)
(* modelled.                                                               *)

\* enum InterpolationType
linear == 1
lower == 2
higher == 3
nearest == 4
midpoint == 5
InterpolationTypes == {linear, lower, higher, nearest, midpoint}

\* Math.floor of a fraction
MathFloor(a) == a.num \div a.den

\* sortBy(value) and sort((a, b) => a - b): the values in ascending order
RECURSIVE InsertValue(_, _)
InsertValue(sorted, v) ==
    IF sorted = <<>> THEN <<v>>
    ELSE IF v < Head(sorted) THEN <<v>> \o sorted
    ELSE <<Head(sorted)>> \o InsertValue(Tail(sorted), v)

RECURSIVE SortValues(_)
SortValues(values) ==
    IF values = <<>> THEN <<>>
    ELSE InsertValue(SortValues(Tail(values)), Head(values))

\* fraction = (size - 1) * i - index
FractionAt(size, i) ==
    RatSub(RatMulInt(size - 1, i), RatOfInt(MathFloor(RatMulInt(size - 1, i))))

\* v0 + (v1 - v0) * fraction
Linear(v0, v1, fraction) ==
    RatAdd(RatOfInt(v0), RatMulInt(v1 - v0, fraction))

\* fraction < 0.5 ? v0 : v1
Nearest(v0, v1, fraction) ==
    IF RatLess(fraction, Rat(1, 2)) THEN RatOfInt(v0) ELSE RatOfInt(v1)

\* the if-chain of quantile: its tests are the enum members themselves,
\* numbers that are not zero
QuantileCut(v0, v1, fraction, interp) ==
    IF lower # 0 \/ fraction = RatOfInt(0) THEN RatOfInt(v0)
    ELSE IF linear # 0 THEN Linear(v0, v1, fraction)
    ELSE IF higher # 0 THEN RatOfInt(v1)
    ELSE IF nearest # 0 THEN Nearest(v0, v1, fraction)
    ELSE Rat(v0 + v1, 2)

\* the for loop of quantile, i = k * subsets
RECURSIVE QuantileLoop(_, _, _, _, _)
QuantileLoop(sorted, n, k, interp, results) ==
    IF ~RatLess(Rat(k, n), RatOfInt(1))
    THEN results
    ELSE QuantileLoop(sorted, n, k + 1, interp,
            IF MathFloor(RatMulInt(Len(sorted) - 1, Rat(k, n)))
                    < Len(sorted) - 1
            THEN Append(results,
                    QuantileCut(
                        sorted[MathFloor(RatMulInt(Len(sorted) - 1,
                                                   Rat(k, n))) + 1],
                        sorted[MathFloor(RatMulInt(Len(sorted) - 1,
                                                   Rat(k, n))) + 2],
                        FractionAt(Len(sorted), Rat(k, n)), interp))
            ELSE results)

\* Collection.quantile(n, "a", interp) on a Collection of these field
\* values
quantile(values, n, interp) ==
    IF n > Len(values)
    THEN [threw |-> TRUE, results |-> <<>>]
    ELSE [threw |-> FALSE,
          results |-> QuantileLoop(SortValues(values), n, 1, interp, <<>>)]

\* the if-chain of percentile
PercentileCut(v0, v1, fraction, interp) ==
    IF interp = lower \/ fraction = RatOfInt(0) THEN RatOfInt(v0)
    ELSE IF interp = linear THEN Linear(v0, v1, fraction)
    ELSE IF interp = higher THEN RatOfInt(v1)
    ELSE IF interp = nearest THEN Nearest(v0, v1, fraction)
    ELSE Rat(v0 + v1, 2)

\* percentile(q, interp)(values), for 0 < q < 100 and values without
\* missing ones, on the sorted values
PercentileOfSorted(sorted, q, interp) ==
    IF Len(sorted) = 1
    THEN RatOfInt(sorted[1])
    ELSE PercentileCut(
            sorted[MathFloor(RatMulInt(Len(sorted) - 1,
                                       RatDiv(q, RatOfInt(100)))) + 1],
            sorted[MathFloor(RatMulInt(Len(sorted) - 1,
                                       RatDiv(q, RatOfInt(100)))) + 2],
            FractionAt(Len(sorted), RatDiv(q, RatOfInt(100))), interp)

percentile(values, q, interp) ==
    PercentileOfSorted(SortValues(values), q, interp)

\* the field values of a Collection of 1 .. MaxEvents events
RECURSIVE ValueLists(_)
ValueLists(n) ==
    IF n = 0 THEN {<<>>}
    ELSE {Append(l, v) : l \in ValueLists(n - 1), v \in 0..MaxOffset}

FieldValueLists == UNION {ValueLists(n) : n \in 1..MaxEvents}

----------------------------------------------------------------------------
(* The reducers keep and median with their clean strategies, over arrays   *)
(* of whole numbers and null.  An array handed to a clean strategy comes   *)
(* back as itself, as a fresh array, or not at all (null).                 *)

\* what a reducer returns for `undefined`
undefinedValue == [num |-> 0, den |-> -2]

\* util.isValid: not undefined, NaN or null
isValid(v) == ~(v = undefinedValue \/ v = NaN \/ v = null)

\* Array.prototype.filter
RECURSIVE ArrayFilterValid(_)
ArrayFilterValid(values) ==
    IF values = <<>> THEN <<>>
    ELSE IF isValid(Head(values))
         THEN <<Head(values)>> \o ArrayFilterValid(Tail(values))
         ELSE ArrayFilterValid(Tail(values))

\* what a clean strategy returns: null, or an array that is the array it
\* was handed (same) or a fresh one
CleanNull(values) == [isNull |-> TRUE, same |-> FALSE, array |-> <<>>]
CleanSame(values) == [isNull |-> FALSE, same |-> TRUE, array |-> values]
CleanFresh(values) == [isNull |-> FALSE, same |-> FALSE, array |-> values]

keepMissing(values) == CleanSame(values)

ignoreMissing(values) == CleanFresh(ArrayFilterValid(values))

zeroMissing(values) ==
    CleanFresh([i \in 1..Len(values) |->
                   IF isValid(values[i]) THEN values[i] ELSE RatOfInt(0)])

propagateMissing(values) ==
    IF Len(ignoreMissing(values).array) = Len(values)
    THEN CleanSame(values)
    ELSE CleanNull(values)

noneIfEmpty(values) ==
    IF Len(values) = 0 THEN CleanNull(values) ELSE CleanSame(values)

CleanStrategies ==
    {"keepMissing", "ignoreMissing", "zeroMissing", "propagateMissing",
     "noneIfEmpty"}

\* clean(values) for the strategy of that name
Clean(clean, values) ==
    CASE clean = "keepMissing" -> keepMissing(values)
      [] clean = "ignoreMissing" -> ignoreMissing(values)
      [] clean = "zeroMissing" -> zeroMissing(values)
      [] clean = "propagateMissing" -> propagateMissing(values)
      [] clean = "noneIfEmpty" -> noneIfEmpty(values)

\* first(): the first of the values that are left after ignoreMissing
first(values) ==
    LET cleanValues == ignoreMissing(values).array
    IN  IF Len(cleanValues) # 0 THEN cleanValues[1] ELSE undefinedValue

\* keep(clean)(values): the `return null` of the forEach callback returns
\* from the callback only
keep(clean, values) ==
    LET cleanValues == Clean(clean, values)
    IN  IF cleanValues.isNull THEN null ELSE first(cleanValues.array)

\* the UTF-16 code unit of a character of a number or of "null"
CodeUnit(c) ==
    ("-" :> 45 @@ "0" :> 48 @@ "1" :> 49 @@ "2" :> 50 @@ "3" :> 51 @@
     "4" :> 52 @@ "5" :> 53 @@ "6" :> 54 @@ "7" :> 55 @@ "8" :> 56 @@
     "9" :> 57 @@ "l" :> 108 @@ "n" :> 110 @@ "u" :> 117)[c]

\* ToString of a whole number or null
ValueToString(v) ==
    IF v = null THEN <<"n", "u", "l", "l">> ELSE IntStr(v.num)

\* x < y for strings: by code units, a proper prefix first
RECURSIVE StringLess(_, _)
StringLess(x, y) ==
    IF y = <<>> THEN FALSE
    ELSE IF x = <<>> THEN TRUE
    ELSE IF CodeUnit(Head(x)) # CodeUnit(Head(y))
         THEN CodeUnit(Head(x)) < CodeUnit(Head(y))
         ELSE StringLess(Tail(x), Tail(y))

\* the place of v in an array sorted without a compare function: after
\* every element whose string is not greater (the sort is stable)
RECURSIVE SortInsert(_, _)
SortInsert(sorted, v) ==
    IF sorted = <<>> THEN <<v>>
    ELSE IF StringLess(ValueToString(v), ValueToString(Head(sorted)))
         THEN <<v>> \o sorted
         ELSE <<Head(sorted)>> \o SortInsert(Tail(sorted), v)

\* Array.prototype.sort(): the elements in the order of their strings
RECURSIVE ArraySort(_)
ArraySort(values) ==
    IF values = <<>> THEN <<>>
    ELSE SortInsert(ArraySort(Sub(values, 1, Len(values) - 1)),
                    values[Len(values)])

\* a variant of ArraySort that compares the numbers, null as 0
RECURSIVE NumericInsert(_, _)
NumericInsert(sorted, v) ==
    IF sorted = <<>> THEN <<v>>
    ELSE IF v.num < Head(sorted).num
         THEN <<v>> \o sorted
         ELSE <<Head(sorted)>> \o NumericInsert(Tail(sorted), v)

RECURSIVE ArraySortNumeric(_)
ArraySortNumeric(values) ==
    IF values = <<>> THEN <<>>
    ELSE NumericInsert(ArraySortNumeric(Sub(values, 1, Len(values) - 1)),
                       values[Len(values)])

\* ToNumber(null) is 0
ToNumber(v) == IF v = null THEN RatOfInt(0) ELSE v

\* (a + b) / 2
HalfSum(a, b) == RatDiv(RatAdd(ToNumber(a), ToNumber(b)), RatOfInt(2))

\* median(clean)(values), the value returned; sorted[0] and sorted[-1] of
\* an empty array are undefined, and (undefined + undefined) / 2 is NaN
median(clean, values) ==
    LET cleanValues == Clean(clean, values)
        sorted == ArraySort(cleanValues.array)
        i == Len(sorted) \div 2
    IN  IF cleanValues.isNull THEN null
        ELSE IF Len(sorted) % 2 = 0
             THEN IF Len(sorted) = 0 THEN NaN
                  ELSE HalfSum(sorted[i + 1], sorted[i])
             ELSE sorted[i + 1]

\* the caller's array after median(clean)(values): sort() sorts the
\* cleaned array in place, and that is the caller's array when the clean
\* strategy handed it through
medianLeaves(clean, values) ==
    LET cleanValues == Clean(clean, values)
    IN  IF ~cleanValues.isNull /\ cleanValues.same
        THEN ArraySort(cleanValues.array)
        ELSE values

\* the numbers a reducer is handed, one of them of two digits, and null
ReducerValues == {RatOfInt(1), RatOfInt(2), RatOfInt(10), null}

RECURSIVE ArraysOf(_)
ArraysOf(n) ==
    IF n = 0 THEN {<<>>}
    ELSE {Append(l, v) : l \in ArraysOf(n - 1), v \in ReducerValues}

ReducerArrays == UNION {ArraysOf(n) : n \in 0..MaxOffset + 1}

----------------------------------------------------------------------------
(* The strings handed to the Duration constructor: well-formed ones and    *)
(* malformed ones, a few characters long                                   *)

\* the string branch of the constructor holds no throw statement
DurationOfStringThrows(s) == FALSE

DurationChars == {"1", "2", "m", "s", "x", "-"}

RECURSIVE StringsOf(_)
StringsOf(n) ==
    IF n = 0 THEN {<<>>}
    ELSE {Append(s, c) : s \in StringsOf(n - 1), c \in DurationChars}

DurationStrings == UNION {StringsOf(n) : n \in 0..MaxOffset + 1}

----------------------------------------------------------------------------
(* WindowedCollection.aggregate and WindowedCollection.ungroup, over the   *)
(* collections that addEvent has built.  The aggregation spec is           *)
(* {count: ["id", count()]}, so the data of an output event is the number  *)
(* of events of its bucket.                                                *)

\* `${undefined}`, the name of the property that result[undefined] sets
undefinedString == <<"u", "n", "d", "e", "f", "i", "n", "e", "d">>

\* a window key that is undefined
NoWindowKey == <<"undefined">>

\* const [groupKey, windowKey] = group.split("::")
KeyParts(key) ==
    LET parts == Split(key, <<":", ":">>)
    IN  [groupKey |-> parts[1],
         windowKey |-> IF Len(parts) >= 2 THEN parts[2] ELSE NoWindowKey]

\* index(windowKey): an Index of that string
index(windowKey) == [string |-> windowKey]

\* new Event(eventKey, Immutable.fromJS(d)), d = {count: the bucket's size}
IndexedEvent(windowKey, events) ==
    [key |-> index(windowKey), count |-> Len(events)]

\* this.collections.forEach of aggregate: eventMap after the entries 1..n
RECURSIVE AggregateLoop(_, _)
AggregateLoop(map, n) ==
    IF n = 0 THEN <<>>
    ELSE LET eventMap == AggregateLoop(map, n - 1)
             parts == KeyParts(map[n].key)
             indexedEvent == IndexedEvent(parts.windowKey, map[n].events)
             eventList ==
                IF Has(eventMap, parts.groupKey)
                THEN Get(eventMap, parts.groupKey)
                ELSE <<>>
         IN  Set(eventMap, parts.groupKey, Append(eventList, indexedEvent))

\* an entry of the map has no window key to make an Index of
HandsUndefined(map) ==
    \E i \in 1..Len(map) : KeyParts(map[i].key).windowKey = NoWindowKey

NoAggregate == [threw |-> FALSE, groups |-> <<>>]

\* WindowedCollection.aggregate(aggregationSpec): the GroupedCollection as
\* the sequence of its groups.  index(undefined) either throws or makes an
\* Index without a string (strict tells which).
aggregate(map, strict) ==
    IF strict /\ HandsUndefined(map)
    THEN [threw |-> TRUE, groups |-> <<>>]
    ELSE [threw |-> FALSE, groups |-> AggregateLoop(map, Len(map))]

\* key.split("::")[1] as a property name
NewKey(key) ==
    LET parts == Split(key, <<":", ":">>)
    IN  IF Len(parts) >= 2 THEN parts[2] ELSE undefinedString

\* this.collections.forEach of ungroup: the properties set on result by
\* result[newKey] = collection after the entries 1..n
RECURSIVE UngroupLoop(_, _)
UngroupLoop(map, n) ==
    IF n = 0 THEN <<>>
    ELSE Set(UngroupLoop(map, n - 1), NewKey(map[n].key), map[n].events)

NoUngroup == [entries |-> <<>>, properties |-> <<>>]

\* WindowedCollection.ungroup: result is Immutable.Map(), which has no
\* entries, and an assignment result[newKey] sets a property of the
\* object, not an entry of the map
ungroup(map) ==
    [entries |-> <<>>, properties |-> UngroupLoop(map, Len(map))]

\* options without a trigger
NoTrigger == "undefined"

\* windowed({window}) and windowed({window, trigger})
OnlineOptions == [window : StreamWindows, trigger : Triggers \cup {NoTrigger}]

----------------------------------------------------------------------------
(* The Node push graph.  A node is its kind, its parameter (the name of    *)
(* its predicate, mapper or callback) and its observers in the order they  *)
(* were added; events are whole numbers.  A call of set that has not       *)
(* returned is a frame: the node, the outputs of process, the output being *)
(* notified and the next observer of the forEach of notify.                *)

Node(kind, param, observers) ==
    [kind |-> kind, param |-> param, observers |-> observers]

Predicates == {"isEven", "isPositive", "never"}

\* this.predicate(e)
Predicate(name, e) ==
    CASE name = "isEven" -> e % 2 = 0
      [] name = "isPositive" -> e > 0
      [] name = "never" -> FALSE

Mappers == {"increment", "double"}

\* this.mapper(e) of a MapNode
Mapper(name, e) ==
    CASE name = "increment" -> e + 1
      [] name = "double" -> 2 * e

\* this.mapper(e) of the FlatMapNode: the event and the event ten later
FlatMapper(e) == <<e, e + 10>>

\* a variant of FilterNode.process that lets every event through
FilterPassAll(name, e) == <<e>>

\* FilterNode.process
FilterProcess(name, e) == IF Predicate(name, e) THEN <<e>> ELSE <<>>

\* process of the node: the outputs, an output node calls back and
\* returns an empty list
process(node, e) ==
    CASE node.kind = "EventInputNode" -> <<e>>
      [] node.kind = "FilterNode" -> FilterProcess(node.param, e)
      [] node.kind = "MapNode" -> <<Mapper(node.param, e)>>
      [] node.kind = "FlatMapNode" -> FlatMapper(e)
      [] node.kind = "EventOutputNode" -> <<>>

\* the callback invocations of process
Callbacks(node, e) ==
    IF node.kind = "EventOutputNode"
    THEN <<[callback |-> node.param, event |-> e]>>
    ELSE <<>>

\* EventInputNode -> FilterNode(p) -> MapNode(f) -> EventOutputNode
Chain(pred, f) ==
    <<Node("EventInputNode", "", <<2>>),
      Node("FilterNode", pred, <<3>>),
      Node("MapNode", f, <<4>>),
      Node("EventOutputNode", "callback", <<>>)>>

\* the chain, and as a second observer of the input node a FlatMapNode
\* with two output nodes as observers
ChainAndFan(pred, f) ==
    <<Node("EventInputNode", "", <<2, 5>>),
      Node("FilterNode", pred, <<3>>),
      Node("MapNode", f, <<4>>),
      Node("EventOutputNode", "callback", <<>>),
      Node("FlatMapNode", "", <<6, 7>>),
      Node("EventOutputNode", "left", <<>>),
      Node("EventOutputNode", "right", <<>>)>>

Graphs ==
    {Chain(pred, f) : pred \in Predicates, f \in Mappers} \cup
    {ChainAndFan(pred, f) : pred \in Predicates, f \in Mappers}

\* the frame of a call of set that has run process
Frame(n, outputs) == [node |-> n, outputs |-> outputs, output |-> 1, next |-> 1]

----------------------------------------------------------------------------
(* SpecPeriod: Period.next and Period.within, the loop of within taken one *)
(* iteration at a time                                                     *)

\* the loop of within is cut off after IterCap iterations
IterCap == 2 * MaxSpan + 2

\* the variables of a specification that is not the one running
PeriodIdle ==
    /\ p = Period(Ms(1), 0)
    /\ nextArg = 0
    /\ nextRes = 0
    /\ timerange = [begin |-> 0, end |-> 0]
    /\ scan = 0
    /\ result = <<>>
    /\ ppc = "idle"

WindowIdle ==
    /\ win = WindowOfDuration(Ms(1))
    /\ arg = [t1 |-> 0, t2 |-> 0]
    /\ indexSet = <<>>
    /\ wpc = "idle"
    /\ winStr = <<>>

StreamIdle ==
    /\ options = [window |-> WindowOfDuration(Ms(1)), trigger |-> "perEvent"]
    /\ group = FALSE
    /\ collections = <<>>
    /\ toBeEmitted = <<>>
    /\ threw = FALSE
    /\ fed = <<>>
    /\ emitted = <<>>
    /\ discarded = {}

DayIdle ==
    /\ dayTz = Zone("Etc/UTC", 0)
    /\ dayArg = [t1 |-> 0, t2 |-> 0]
    /\ dayIndexes = <<>>
    /\ dpc = "idle"

CollIdle ==
    /\ coll = EmptyCollection
    /\ call = [op |-> "new", event |-> undefined, dedup |-> "none"]
    /\ cthrew = FALSE
    /\ nops = 0

AlignIdle ==
    /\ align = Align(Period(Ms(1), 0), "hold", 0)
    /\ alignPrior = AlignEvent(0, null)
    /\ alignEvent = AlignEvent(0, null)
    /\ aligned = <<>>
    /\ alignFed = 0

RateIdle ==
    /\ rate = Rate(FALSE)
    /\ rateIn = <<>>
    /\ rated = <<>>
    /\ ratedAll = <<>>

QuantileIdle ==
    /\ qValues = <<0>>
    /\ qN = 1
    /\ qInterp = linear
    /\ qResults = <<>>
    /\ qThrew = FALSE
    /\ qpc = "idle"

ReducerIdle ==
    /\ rValues = <<>>
    /\ rClean = "ignoreMissing"
    /\ rArray = <<>>
    /\ rResult = null
    /\ rpc = "idle"

DurationIdle ==
    /\ durArg = <<>>
    /\ dur = DurationOfNumber(0)
    /\ durThrew = FALSE
    /\ durpc = "idle"

ReadIdle ==
    /\ called = "new"
    /\ aggregated = NoAggregate
    /\ ungrouped = NoUngroup

NodeIdle ==
    /\ nodes = <<>>
    /\ frames = <<>>
    /\ sets = <<>>
    /\ callbacks = <<>>
    /\ inputs = <<>>

MoreIdle == ReducerIdle /\ DurationIdle /\ ReadIdle /\ NodeIdle

LaterIdle ==
    DayIdle /\ CollIdle /\ AlignIdle /\ RateIdle /\ QuantileIdle /\ MoreIdle

PeriodInit ==
    /\ WindowIdle
    /\ StreamIdle
    /\ LaterIdle
    /\ p \in Periods \cup FiveMinutePeriods
    /\ nextArg = 0
    /\ nextRes = 0
    /\ timerange = [begin |-> 0, end |-> 0]
    /\ scan = 0
    /\ result = <<>>
    /\ ppc = "idle"

\* p.next(time(t)), called on the short periods (the 5-minute period
\* reaches next through within)
CallNext ==
    /\ ppc = "idle"
    /\ p \in Periods
    /\ \E t \in Times :
        /\ nextArg' = t
        /\ nextRes' = next(p, t)
    /\ ppc' = "next"
    /\ UNCHANGED <<p, timerange, scan, result>>

\* p.within(timerange(t1, t2)), up to the loop
WithinBegin ==
    /\ ppc = "idle"
    /\ \E r \in RangesOf(p) :
        /\ timerange' = r
        /\ scan' = IF isAligned(p, r.begin) THEN r.begin ELSE next(p, r.begin)
    /\ result' = <<>>
    /\ ppc' = "within"
    /\ UNCHANGED <<p, nextArg, nextRes>>

\* one iteration of the loop of within
WithinLoop ==
    /\ ppc = "within"
    /\ scan < timerange.end
    /\ Len(result) < IterCap
    /\ result' = Append(result, scan)
    /\ scan' = next(p, scan)
    /\ UNCHANGED <<p, nextArg, nextRes, timerange, ppc>>

\* the loop ends and within returns result
WithinReturn ==
    /\ ppc = "within"
    /\ ~(scan < timerange.end)
    /\ ppc' = "done"
    /\ UNCHANGED <<p, nextArg, nextRes, timerange, scan, result>>

PeriodNext ==
    /\ CallNext \/ WithinBegin \/ WithinLoop \/ WithinReturn
    /\ UNCHANGED <<windowVars, wcVars, laterVars>>

SpecPeriod == PeriodInit /\ [][PeriodNext]_vars

----------------------------------------------------------------------------
(* SpecWindow: Window.getIndexSet applied to a Time or to a TimeRange, and *)
(* Window.toString                                                         *)

WindowInit ==
    /\ PeriodIdle
    /\ StreamIdle
    /\ LaterIdle
    /\ win \in Windows \cup StringWindows
    /\ arg = [t1 |-> 0, t2 |-> 0]
    /\ indexSet = <<>>
    /\ wpc = "idle"
    /\ winStr = <<>>

\* win.getIndexSet(time(t))
GetIndexSetOfTime ==
    /\ wpc = "idle"
    /\ win \in Windows
    /\ \E t \in Times :
        /\ arg' = [t1 |-> t, t2 |-> t]
        /\ indexSet' = getIndexSet(win, t, t)
    /\ wpc' = "done"
    /\ UNCHANGED <<win, winStr>>

\* win.getIndexSet(timerange(t1, t2))
GetIndexSetOfRange ==
    /\ wpc = "idle"
    /\ win \in Windows
    /\ \E r \in TimeRanges :
        /\ r.begin < r.end
        /\ arg' = [t1 |-> r.begin, t2 |-> r.end]
        /\ indexSet' = getIndexSet(win, r.begin, r.end)
    /\ wpc' = "done"
    /\ UNCHANGED <<win, winStr>>

\* win.toString()
CallToString ==
    /\ wpc = "idle"
    /\ winStr' = WindowToString(win)
    /\ wpc' = "string"
    /\ UNCHANGED <<win, arg, indexSet>>

WindowNext ==
    /\ GetIndexSetOfTime \/ GetIndexSetOfRange \/ CallToString
    /\ UNCHANGED <<periodVars, wcVars, laterVars>>

SpecWindow == WindowInit /\ [][WindowNext]_vars

----------------------------------------------------------------------------
(* SpecDay: DayWindow.getIndexSet applied to a Time or to a TimeRange *)

DayInit ==
    /\ PeriodIdle
    /\ WindowIdle
    /\ StreamIdle
    /\ CollIdle
    /\ AlignIdle
    /\ RateIdle
    /\ MoreIdle
    /\ QuantileIdle
    /\ dayTz \in Zones
    /\ dayArg = [t1 |-> 0, t2 |-> 0]
    /\ dayIndexes = <<>>
    /\ dpc = "idle"

\* daily(tz).getIndexSet(time(t))
DayIndexSetOfTime ==
    /\ dpc = "idle"
    /\ \E t \in DayTimes :
        /\ dayArg' = [t1 |-> t, t2 |-> t]
        /\ dayIndexes' = DayGetIndexSet(dayTz, t, t)
    /\ dpc' = "done"
    /\ UNCHANGED dayTz

\* daily(tz).getIndexSet(timerange(t1, t2))
DayIndexSetOfRange ==
    /\ dpc = "idle"
    /\ \E t1 \in DayTimes, t2 \in DayTimes :
        /\ t1 < t2
        /\ dayArg' = [t1 |-> t1, t2 |-> t2]
        /\ dayIndexes' = DayGetIndexSet(dayTz, t1, t2)
    /\ dpc' = "done"
    /\ UNCHANGED dayTz

DayNext ==
    /\ DayIndexSetOfTime \/ DayIndexSetOfRange
    /\ UNCHANGED <<periodVars, windowVars, wcVars, collVars, alignVars,
                   rateVars, quantileVars, moreVars>>

SpecDay == DayInit /\ [][DayNext]_vars

----------------------------------------------------------------------------
(* SpecCollection: a Collection built empty and then operated on, each     *)
(* call made on the Collection the last one returned; a call that throws   *)
(* leaves that Collection as it was                                        *)

CollectionInit ==
    /\ PeriodIdle
    /\ WindowIdle
    /\ StreamIdle
    /\ DayIdle
    /\ AlignIdle
    /\ RateIdle
    /\ MoreIdle
    /\ QuantileIdle
    /\ coll = EmptyCollection
    /\ call = [op |-> "new", event |-> undefined, dedup |-> "none"]
    /\ cthrew = FALSE
    /\ nops = 0

\* the state after a call with outcome r
Called(op, event, dedup, r) ==
    /\ coll' = IF r.threw THEN coll ELSE r.collection
    /\ cthrew' = r.threw
    /\ call' = [op |-> op, event |-> event, dedup |-> dedup]
    /\ nops' = nops + 1

\* coll.addEvent(event), coll.addEvent(event, true),
\* coll.addEvent(event, sum)
CallAddEvent ==
    /\ nops < MaxOps
    /\ \E k \in CollectionKeys, dedup \in Dedups :
        Called("addEvent", Event(k, FieldValue(nops)), dedup,
               CollectionAddEvent(coll, Event(k, FieldValue(nops)), dedup))

\* coll.removeEvents(key)
CallRemoveEvents ==
    /\ nops < MaxOps
    /\ \E k \in CollectionKeys :
        Called("removeEvents", Event(k, 0), "none", removeEvents(coll, k))

\* coll.slice(begin, end)
CallSlice ==
    /\ nops < MaxOps
    /\ \E begin \in 0..1, end \in 1..2 :
        Called("slice", undefined, "none",
               Returns(slice(coll, begin, end)))

\* coll.filter(e => e.getKey() is not k)
CallFilter ==
    /\ nops < MaxOps
    /\ \E k \in CollectionKeys :
        Called("filter", Event(k, 0), "none", Returns(filter(coll, k)))

\* coll.rest()
CallRest ==
    /\ nops < MaxOps
    /\ Called("rest", undefined, "none", Returns(rest(coll)))

\* coll.takeLast(amount)
CallTakeLast ==
    /\ nops < MaxOps
    /\ \E amount \in 1..2 :
        Called("takeLast", undefined, "none",
               Returns(takeLast(coll, amount)))

CollectionNext ==
    /\ \/ CallAddEvent
       \/ CallRemoveEvents
       \/ CallSlice
       \/ CallFilter
       \/ CallRest
       \/ CallTakeLast
    /\ UNCHANGED <<periodVars, windowVars, wcVars, dayVars, alignVars,
                   rateVars, quantileVars, moreVars>>

SpecCollection == CollectionInit /\ [][CollectionNext]_vars

----------------------------------------------------------------------------
(* SpecAlign: an Align processor fed events of ascending timestamps, one   *)
(* addEvent call at a time                                                 *)

AlignInit ==
    /\ PeriodIdle
    /\ WindowIdle
    /\ StreamIdle
    /\ DayIdle
    /\ CollIdle
    /\ RateIdle
    /\ MoreIdle
    /\ QuantileIdle
    /\ \E q \in AlignPeriods, method \in AlignMethods, limit \in AlignLimits :
        align = Align(q, method, limit)
    /\ alignPrior = AlignEvent(0, null)
    /\ alignEvent = AlignEvent(0, null)
    /\ aligned = <<>>
    /\ alignFed = 0

\* align.addEvent(event)
FeedAlign ==
    /\ alignFed < MaxEvents - 1
    /\ \E t \in AlignTimes(align.period) :
        /\ align.hasPrevious => align.previous.time <= t
        /\ alignEvent' = AlignEvent(t, AlignValue(alignFed + 1))
        /\ aligned' = AlignAddEvent(align,
                                    AlignEvent(t, AlignValue(alignFed + 1)))
        /\ align' = AlignHeld(align, AlignEvent(t, AlignValue(alignFed + 1)))
    /\ alignPrior' = align.previous
    /\ alignFed' = alignFed + 1

AlignNext ==
    /\ FeedAlign
    /\ UNCHANGED <<periodVars, windowVars, wcVars, dayVars, collVars,
                   rateVars, quantileVars, moreVars>>

SpecAlign == AlignInit /\ [][AlignNext]_vars

----------------------------------------------------------------------------
(* SpecRate: a Rate processor fed events in order of their timestamps, one *)
(* addEvent call at a time                                                 *)

RateInit ==
    /\ PeriodIdle
    /\ WindowIdle
    /\ StreamIdle
    /\ DayIdle
    /\ CollIdle
    /\ AlignIdle
    /\ MoreIdle
    /\ QuantileIdle
    /\ rate \in {Rate(allowNegative) : allowNegative \in BOOLEAN}
    /\ rateIn = <<>>
    /\ rated = <<>>
    /\ ratedAll = <<>>

\* rate.addEvent(event)
FeedRate ==
    /\ Len(rateIn) < MaxEvents - 1
    /\ \E event \in RateEvents :
        /\ rate.hasPrevious => rate.previous.time <= event.time
        /\ rated' = RateAddEvent(rate, event)
        /\ ratedAll' = ratedAll \o RateAddEvent(rate, event)
        /\ rate' = RateHeld(rate, event)
        /\ rateIn' = Append(rateIn, event)

RateNext ==
    /\ FeedRate
    /\ UNCHANGED <<periodVars, windowVars, wcVars, dayVars, collVars,
                   alignVars, quantileVars, moreVars>>

SpecRate == RateInit /\ [][RateNext]_vars

----------------------------------------------------------------------------
(* SpecQuantile: one call of Collection.quantile *)

QuantileInit ==
    /\ PeriodIdle
    /\ WindowIdle
    /\ StreamIdle
    /\ DayIdle
    /\ CollIdle
    /\ AlignIdle
    /\ MoreIdle
    /\ RateIdle
    /\ qValues \in FieldValueLists
    /\ qN \in 1..MaxEvents
    /\ qInterp \in InterpolationTypes
    /\ qResults = <<>>
    /\ qThrew = FALSE
    /\ qpc = "idle"

\* collection.quantile(qN, "a", qInterp)
CallQuantile ==
    /\ qpc = "idle"
    /\ qResults' = quantile(qValues, qN, qInterp).results
    /\ qThrew' = quantile(qValues, qN, qInterp).threw
    /\ qpc' = "done"
    /\ UNCHANGED <<qValues, qN, qInterp>>

QuantileNext ==
    /\ CallQuantile
    /\ UNCHANGED <<periodVars, windowVars, wcVars, dayVars, collVars,
                   alignVars, rateVars, moreVars>>

SpecQuantile == QuantileInit /\ [][QuantileNext]_vars

----------------------------------------------------------------------------
(* SpecReducer: one call of keep(clean) or of median(clean) on an array    *)

ReducerInit ==
    /\ PeriodIdle
    /\ WindowIdle
    /\ StreamIdle
    /\ DayIdle
    /\ CollIdle
    /\ AlignIdle
    /\ RateIdle
    /\ QuantileIdle
    /\ DurationIdle
    /\ ReadIdle
    /\ NodeIdle
    /\ rValues \in ReducerArrays
    /\ rClean \in CleanStrategies
    /\ rArray = rValues
    /\ rResult = null
    /\ rpc = "idle"

\* keep(rClean)(rValues)
CallKeep ==
    /\ rpc = "idle"
    /\ rResult' = keep(rClean, rValues)
    /\ rpc' = "keep"
    /\ UNCHANGED <<rValues, rClean, rArray>>

\* median(rClean)(rValues)
CallMedian ==
    /\ rpc = "idle"
    /\ rResult' = median(rClean, rValues)
    /\ rArray' = medianLeaves(rClean, rValues)
    /\ rpc' = "median"
    /\ UNCHANGED <<rValues, rClean>>

ReducerNext ==
    /\ CallKeep \/ CallMedian
    /\ UNCHANGED <<periodVars, windowVars, wcVars, dayVars, collVars,
                   alignVars, rateVars, quantileVars, durationVars,
                   readVars, nodeVars>>

SpecReducer == ReducerInit /\ [][ReducerNext]_vars

----------------------------------------------------------------------------
(* SpecDuration: one call of the Duration constructor with a string        *)

DurationInit ==
    /\ PeriodIdle
    /\ WindowIdle
    /\ StreamIdle
    /\ DayIdle
    /\ CollIdle
    /\ AlignIdle
    /\ RateIdle
    /\ QuantileIdle
    /\ ReducerIdle
    /\ ReadIdle
    /\ NodeIdle
    /\ durArg \in DurationStrings
    /\ dur = DurationOfNumber(0)
    /\ durThrew = FALSE
    /\ durpc = "idle"

\* new Duration(durArg)
NewDuration ==
    /\ durpc = "idle"
    /\ dur' = DurationOfString(durArg)
    /\ durThrew' = DurationOfStringThrows(durArg)
    /\ durpc' = "done"
    /\ UNCHANGED durArg

DurationNext ==
    /\ NewDuration
    /\ UNCHANGED <<periodVars, windowVars, wcVars, dayVars, collVars,
                   alignVars, rateVars, quantileVars, reducerVars, readVars,
                   nodeVars>>

SpecDuration == DurationInit /\ [][DurationNext]_vars

----------------------------------------------------------------------------
(* Spec: a WindowedCollection built empty, for streaming, and fed events   *)
(* one addEvent call at a time                                             *)

Init ==
    /\ PeriodIdle
    /\ WindowIdle
    /\ LaterIdle
    /\ options \in StreamOptions
    /\ group \in BOOLEAN
    /\ group => options.window \in GroupedStreamWindows
    /\ collections = <<>>
    /\ toBeEmitted = <<>>
    /\ threw = FALSE
    /\ fed = <<>>
    /\ emitted = <<>>
    /\ discarded = {}

\* the state after a call of addEvent with outcome r: the held buckets, the
\* returned list, and the record of what was emitted and discarded so far
Returned(r) ==
    /\ collections' = r.collections
    /\ toBeEmitted' = r.toBeEmitted
    /\ threw' = r.threw
    /\ emitted' = emitted \o r.toBeEmitted
    /\ discarded' = discarded \cup Keys(r.discard)

\* collection.addEvent(event); a grouped collection is fed one event less
AddEvent ==
    /\ Len(fed) < (IF group THEN MaxEvents - 1 ELSE MaxEvents)
    /\ \E event \in Events(group, Len(fed) + 1) :
        /\ Returned(addEvent(options, group, collections, event))
        /\ fed' = Append(fed, event)
    /\ UNCHANGED <<options, group>>

Next ==
    /\ AddEvent
    /\ UNCHANGED <<periodVars, windowVars, laterVars>>

Spec == Init /\ [][Next]_vars

----------------------------------------------------------------------------
(* Properties of the WindowedCollection, checked under Spec *)

\* the event of the latest addEvent call
LastEvent == fed[Len(fed)]

\* the events were fed in non-decreasing timestamp order
InOrder ==
    \A i \in 1..Len(fed), j \in 1..Len(fed) :
        i < j => fed[i].timestamp <= fed[j].timestamp

\* a tumbling window of a whole number of milliseconds, written in a unit
\* other than w, whose period has no offset
Tumbling(wd) ==
    /\ DurationValueOf(wd.period.frequency) = DurationValueOf(wd.duration)
    /\ wd.period.offset = 0
    /\ wd.duration.string # <<>>
    /\ wd.duration.string[Len(wd.duration.string)] \in IndexUnits
    /\ IsWhole(DurationValueOf(wd.duration))

\* the number of the tumbling window an event falls in, and the key of
\* its bucket
WindowIndexOf(e) ==
    e.timestamp \div Trunc(DurationValueOf(options.window.duration))

BucketKeyOf(e) ==
    (IF group THEN e.group \o <<":", ":">> ELSE <<>>)
    \o WindowToString(options.window) \o <<"-">> \o NumStr(WindowIndexOf(e))

FedWindows == {WindowIndexOf(fed[i]) : i \in 1..Len(fed)}

FedKeys == {BucketKeyOf(fed[i]) : i \in 1..Len(fed)}

\* the fed events of one bucket, in the order fed
FedUnder(key) == SelectSeq(fed, LAMBDA e : BucketKeyOf(e) = key)

\* the buckets of every window but the one the last event falls in
ClosedKeys ==
    {BucketKeyOf(fed[i]) :
        i \in {j \in 1..Len(fed) :
                WindowIndexOf(fed[j]) # WindowIndexOf(LastEvent)}}

C1_Applies ==
    /\ options.trigger = "onDiscardedWindow"
    /\ Tumbling(options.window)
    /\ fed # <<>>
    /\ InOrder

AddedTo(events, bucket, e) ==
    /\ Len(events) = Len(bucket) + 1
    /\ Range(events) = Range(bucket) \cup {e}
    /\ \A i \in 1..(Len(events) - 1) :
            events[i].timestamp <= events[i + 1].timestamp

----------------------------------------------------------------------------
(* Properties of Window.getIndexSet and the Index-string decoder, checked  *)
(* under SpecWindow                                                        *)

\* Math.floor
Floor(a) == a.num \div a.den

WinPrefix == WindowToString(win)
WinF == DurationValueOf(win.period.frequency)
WinD == DurationValueOf(win.duration)

\* the least and the greatest k whose window [k*f, k*f + d) overlaps
\* [t1, t2]: k*f > t1 - d and k*f <= t2
FirstOverlap == Floor(RatDiv(RatAdd(RatOfInt(arg.t1), RatMulInt(-1, WinD)), WinF)) + 1
LastOverlap == Floor(RatDiv(RatOfInt(arg.t2), WinF))

\* the Index strings of FirstOverlap .. LastOverlap in ascending order
OverlapIndexes ==
    [i \in 1..(LastOverlap - FirstOverlap + 1) |->
        IndexString(WinPrefix, FirstOverlap + i - 1)]

\* C5: getIndexSet returns, in ascending order and once each, the Index
\* "<prefix>-<k>" of exactly the k whose window [k*f, k*f + d) overlaps
\* [t1, t2], whatever the period offset.
C5_SoundAndComplete == wpc = "done" => indexSet = OverlapIndexes

\* the period index an Index string of win ends with, if there is one
IndexOfString(s) ==
    CHOOSE k \in (FirstOverlap - 2 * MaxMult - 2)..(LastOverlap + 2) :
        s = IndexString(WinPrefix, k)

\* [index*f, index*f + d) contains t
RangeOfIndexContains(r, k, t) ==
    /\ r.defined
    /\ ~r.calendar
    /\ RatOfInt(r.begin) = RatMulInt(k, WinF)
    /\ RatOfInt(r.end) = RatAdd(RatMulInt(k, WinF), WinD)
    /\ r.begin <= t
    /\ t < r.end

\* C6: every Index string of getIndexSet(t) is decoded by
\* timeRangeFromIndexString to [index*f, index*f + d), which contains t.
C6_RoundTrip ==
    (wpc = "done" /\ arg.t1 = arg.t2) =>
        \A i \in 1..Len(indexSet) :
            /\ \E k \in (FirstOverlap - 2 * MaxMult - 2)..(LastOverlap + 2) :
                    indexSet[i] = IndexString(WinPrefix, k)
            /\ RangeOfIndexContains(timeRangeFromIndexString(indexSet[i]),
                                    IndexOfString(indexSet[i]), arg.t1)

\* a window made from a duration alone
IsFixed(wd) == wd = WindowOfDuration(wd.duration)

\* duration and frequency are whole numbers of milliseconds
WholeMs(wd) ==
    /\ IsWhole(DurationValueOf(wd.duration))
    /\ IsWhole(DurationValueOf(wd.period.frequency))

\* duration > frequency
IsSliding(wd) ==
    RatLess(DurationValueOf(wd.period.frequency), DurationValueOf(wd.duration))

\* duration >= 2 * frequency
TwiceSliding(wd) ==
    RatLeq(RatMulInt(2, DurationValueOf(wd.period.frequency)),
           DurationValueOf(wd.duration))

C8_PrefixDecodes ==
    (wpc = "done" /\ arg.t1 = arg.t2 /\ arg.t1 >= 0) =>
        \A i \in 1..Len(indexSet) :
            /\ isIndexString(indexSet[i])
            /\ timeRangeFromIndexString(indexSet[i]).defined

----------------------------------------------------------------------------
(* Properties of Period.next and Period.within, checked under SpecPeriod *)

\* C9: next(t) is the smallest instant after t that the period aligns
\* with; it is never t.
C9_NextIsLeastAligned ==
    ppc = "next" =>
        /\ nextRes > nextArg
        /\ isAligned(p, nextRes)
        /\ \A a \in (nextArg + 1)..(nextRes - 1) : ~isAligned(p, a)

\* the whole-millisecond instants the period p aligns with are those
\* congruent to its offset modulo the numerator of its frequency
AlignStep == DurationValueOf(p.frequency).num

\* the aligned instants a with begin <= a < end, in ascending order; a
\* stretch without aligned instants is stepped over at once
RECURSIVE AlignedFrom(_, _)
AlignedFrom(a, end) ==
    IF a >= end THEN <<>>
    ELSE IF isAligned(p, a) THEN <<a>> \o AlignedFrom(a + 1, end)
    ELSE AlignedFrom(a + ((p.offset - a) % AlignStep), end)

\* C10: within(range) returns in strictly ascending order exactly the
\* aligned instants a with begin <= a < end, and its loop ends: while it
\* runs the list stays strictly ascending and below end.
C10_WithinExact ==
    /\ ppc = "done" => result = AlignedFrom(timerange.begin, timerange.end)
    /\ ppc \in {"within", "done"} =>
        /\ \A i \in 1..Len(result) :
            /\ timerange.begin <= result[i]
            /\ result[i] < timerange.end
        /\ \A i \in 1..(Len(result) - 1) : result[i] < result[i + 1]
        /\ Len(result) <= timerange.end - timerange.begin

\* the first instant at or after a that is congruent to the offset of p
\* modulo its frequency, and the instants from there on below end
FirstCongruent(a) == a + ((p.offset - a) % AlignStep)

CongruentIn(lo, end) ==
    LET start == FirstCongruent(lo)
    IN  IF start >= end THEN <<>>
        ELSE [i \in 1..(((end - 1 - start) \div AlignStep) + 1) |->
                start + (i - 1) * AlignStep]

C11_Applies ==
    /\ ppc = "done"
    /\ p \in FiveMinutePeriods
    /\ timerange.end = timerange.begin + 17 * OneMinute

\* C11 as stated: for a 5-minute period within(range(t, t + 17m)) is the
\* list of the aligned instants of the open interval (t, t + 17m); it
\* holds neither t nor t + 17m.
C11_OpenInterval ==
    C11_Applies =>
        /\ result = CongruentIn(timerange.begin + 1, timerange.end)
        /\ \A i \in 1..Len(result) :
            result[i] # timerange.begin /\ result[i] # timerange.end

\* C11, amended: for a 5-minute period within(range(t, t + 17m)) is the
\* list of the aligned instants of the half-open interval [t, t + 17m): it
\* holds t when t is aligned, and never t + 17m.
C11_HalfOpenInterval ==
    C11_Applies =>
        /\ result = CongruentIn(timerange.begin, timerange.end)
        /\ (timerange.begin - p.offset) % AlignStep = 0
            => (result # <<>> /\ result[1] = timerange.begin)
        /\ \A i \in 1..Len(result) : result[i] # timerange.end

\* t is aligned and is the first of the four instants returned
C11_Witness ==
    /\ C11_Applies
    /\ (timerange.begin - p.offset) % AlignStep = 0
    /\ Len(result) = 4
    /\ result[1] = timerange.begin

----------------------------------------------------------------------------
(* Properties of Window.toString, checked under SpecWindow *)

\* the text a duration was given as, or "<n>ms" for a number n
TextOf(d) == IF d.string # <<>> THEN d.string ELSE NumStr(d.duration.num) \o <<"m", "s">>

\* "<frequency>", or "<frequency>+<offsetMs>" with a nonzero offset
PeriodText(q) ==
    IF q.offset = 0 THEN TextOf(q.frequency)
    ELSE TextOf(q.frequency) \o <<"+">> \o NumStr(q.offset)

SameLength(wd) ==
    DurationValueOf(wd.period.frequency) = DurationValueOf(wd.duration)

\* C12 as stated: toString is "<duration>" with nothing appended when the
\* period frequency equals the duration, whatever the offset, and
\* "<duration>@<period>" otherwise.
C12_DurationAlone ==
    wpc = "string" =>
        winStr = IF SameLength(win) THEN TextOf(win.duration)
                 ELSE TextOf(win.duration) \o <<"@">> \o PeriodText(win.period)

\* C12, amended: toString is the period's string when the period frequency
\* equals the duration, "<frequency>" or with a nonzero offset
\* "<frequency>+<offsetMs>", and "<duration>@<period>" otherwise.
C12_PeriodAlone ==
    wpc = "string" =>
        winStr = IF SameLength(win) THEN PeriodText(win.period)
                 ELSE TextOf(win.duration) \o <<"@">> \o PeriodText(win.period)

\* a fixed window with an offset printed "<frequency>+<offsetMs>"
C12_Witness ==
    /\ wpc = "string"
    /\ SameLength(win)
    /\ win.period.offset # 0
    /\ winStr = TextOf(win.duration) \o <<"+">> \o NumStr(win.period.offset)

----------------------------------------------------------------------------
(* Properties of DayWindow.getIndexSet, checked under SpecDay *)

\* the days from the local date of t1 through the local date of t2
DaysThrough(tz, t1, t2) ==
    [i \in 1..(LocalDay(t2, tz) - LocalDay(t1, tz) + 1) |->
        FormatDay(t1 + (i - 1) * SecondsPerDay, tz)]

\* "2015-04-21" and "2015-04-22"
April21 == <<"2", "0", "1", "5", "-", "0", "4", "-", "2", "1">>
April22 == <<"2", "0", "1", "5", "-", "0", "4", "-", "2", "2">>

\* C14: DayWindow.getIndexSet returns exactly one Index per calendar day of
\* the window's timezone, from the local date of t1 through the local date
\* of t2 inclusive, as YYYY-MM-DD; a single Time gives exactly one Index,
\* and the test instant gives 2015-04-21 in America/Los_Angeles and
\* 2015-04-22 in Etc/UTC.
C14_EveryLocalDay ==
    dpc = "done" =>
        /\ dayIndexes = DaysThrough(dayTz, dayArg.t1, dayArg.t2)
        /\ dayArg.t1 = dayArg.t2 => Len(dayIndexes) = 1
        /\ (dayArg.t1 = TestInstant /\ dayArg.t2 = TestInstant) =>
            /\ dayTz.name = "America/Los_Angeles" => dayIndexes = <<April21>>
            /\ dayTz.name = "Etc/UTC" => dayIndexes = <<April22>>

----------------------------------------------------------------------------
(* Properties of Collection, checked under SpecCollection *)

\* the positions of col's events of key k
PositionsOf(col, k) ==
    {i - 1 : i \in {j \in 1..Len(col.events) : col.events[j].key = k}}

\* the events of col of key k, in their order
EventsOfKey(col, k) == SelectSeq(col.events, LAMBDA e : e.key = k)

\* C15: in every Collection reachable by addEvent (with or without dedup),
\* removeEvents, slice, filter, rest and takeLast, the key map holds for
\* each key exactly the positions of the events of that key, so that atKey
\* returns exactly those events.
C15_KeyMapExact ==
    /\ \A k \in DOMAIN coll.keyMap : coll.keyMap[k] = PositionsOf(coll, k)
    /\ \A i \in 1..Len(coll.events) :
        /\ coll.events[i].key \in DOMAIN coll.keyMap
        /\ atKey(coll, coll.events[i].key).list
                = EventsOfKey(coll, coll.events[i].key)

\* the event a deduplicating addEvent is to leave for its key: what the
\* dedup function makes of the held events of the key followed by the new
\* one, or the new one itself
Survivor(col, event, dedup) ==
    IF dedup = "sum"
    THEN Event(event.key,
               SumOf(Append(EventsOfKey(col, event.key), event)))
    ELSE event

\* C16: addEvent(e, dedup) on a Collection that holds events of e's key
\* yields a Collection in which exactly one event has that key, placed
\* last: the dedup function's result for the held events of the key
\* followed by e, or e itself; the other events keep their relative order.
C16_DedupOnInsert ==
    [][(/\ call'.op = "addEvent"
        /\ call'.dedup # "none"
        /\ EventsOfKey(coll, call'.event.key) # <<>>)
       => /\ ~cthrew'
          /\ coll'.events
                = Append(WithoutKey(coll.events, call'.event.key),
                         Survivor(coll, call'.event, call'.dedup))]_vars

----------------------------------------------------------------------------
(* Properties of Align, checked under SpecAlign *)

\* C17: with no previous event held, addEvent records the event as the
\* previous one and returns a list of the event itself if its timestamp is
\* exactly on a period boundary, and an empty list otherwise.
C17_FirstEvent ==
    alignFed = 1 =>
        /\ align.hasPrevious
        /\ align.previous = alignEvent
        /\ aligned = IF isAligned(align.period, alignEvent.time)
                     THEN <<alignEvent>>
                     ELSE <<>>

\* the boundaries of period q from lo up to hi
BoundariesIn(q, lo, hi) ==
    {t \in lo..hi : (t - q.offset) % DurationValueOf(q.frequency).num = 0}

\* the timestamps of a list of events
TimesOf(events) == [i \in 1..Len(events) |-> events[i].time]

\* list is the members of the set S of numbers, ascending
IsAscendingListOf(list, S) ==
    /\ Len(list) = Cardinality(S)
    /\ {list[i] : i \in 1..Len(list)} = S
    /\ \A i \in 1..(Len(list) - 1) : list[i] < list[i + 1]

\* the value on the line from the prior event to the current one
OnTheLine(e) ==
    RatMulInt(alignEvent.time - alignPrior.time, RatSub(e.a, alignPrior.a))
        = RatMulInt(e.time - alignPrior.time,
                    RatSub(alignEvent.a, alignPrior.a))

----------------------------------------------------------------------------
(* Properties of Rate, checked under SpecRate *)

\* C19: the first event fed produces no output; every later event produces
\* exactly one output, keyed by the time range from the previous event's
\* timestamp to the current event's, and the current event becomes the
\* previous one; N events yield N - 1 outputs whose ranges abut.
C19_OnePerLaterEvent ==
    /\ Len(rateIn) = 1 => rated = <<>>
    /\ Len(rateIn) >= 1 =>
        /\ rate.hasPrevious
        /\ rate.previous = rateIn[Len(rateIn)]
        /\ Len(ratedAll) = Len(rateIn) - 1
    /\ Len(rateIn) >= 2 =>
        /\ Len(rated) = 1
        /\ rated[1].key = [begin |-> rateIn[Len(rateIn) - 1].time,
                           end |-> rateIn[Len(rateIn)].time]
    /\ \A k \in 1..(Len(ratedAll) - 1) :
        ratedAll[k].key.end = ratedAll[k + 1].key.begin

\* three events of different timestamps have given two outputs
C19_Witness ==
    /\ Len(rateIn) = 3
    /\ rateIn[1].time < rateIn[2].time
    /\ rateIn[2].time < rateIn[3].time
    /\ Len(ratedAll) = 2
    /\ ratedAll[1].key.end = rateIn[2].time

----------------------------------------------------------------------------
(* Properties of Collection.quantile, checked under SpecQuantile *)

\* C20: every cut point quantile(n, field, interp) returns, the i-th of
\* them, equals percentile(100 * i / n, interp) over the same field values.
C20_SameAsPercentile ==
    (qpc = "done" /\ ~qThrew) =>
        \A i \in 1..Len(qResults) :
            /\ i <= qN - 1
            /\ qResults[i] = percentile(qValues, Rat(100 * i, qN), qInterp)

----------------------------------------------------------------------------
(* The reducers keep and median                                            *)

\* every cleaned value is the same value
AllTheSame(array) == \A i, j \in 1..Len(array) : array[i] = array[j]

\* C21: keep(clean)(values) returns the first non-missing value when the
\* cleaned values are all the same, and null when they are not all the same
C21_NullUnlessAllTheSame ==
    (rpc = "keep" /\ ~Clean(rClean, rValues).isNull) =>
        IF AllTheSame(Clean(rClean, rValues).array)
        THEN rResult = first(Clean(rClean, rValues).array)
        ELSE rResult = null

\* the middle of the values in ascending numeric order, or the mean of the
\* two in the middle
NumericMedian(array) ==
    LET sorted == ArraySortNumeric(array)
        i == Len(sorted) \div 2
    IN  IF Len(sorted) % 2 = 0
        THEN HalfSum(sorted[i + 1], sorted[i])
        ELSE sorted[i + 1]

\* C22: median(clean)(values) returns the numeric median of the cleaned
\* values, the middle one of an odd count and the mean of the two middle
\* ones of an even count, and leaves the caller's array in its order
C22_NumericMedianInputKept ==
    (/\ rpc = "median"
     /\ ~Clean(rClean, rValues).isNull
     /\ Clean(rClean, rValues).array # <<>>
     /\ \A i \in 1..Len(Clean(rClean, rValues).array) :
            isValid(Clean(rClean, rValues).array[i])) =>
        /\ rResult = NumericMedian(Clean(rClean, rValues).array)
        /\ rArray = rValues

----------------------------------------------------------------------------
(* The Duration constructor and malformed strings                          *)

\* the whole of s is a run of digits followed by one unit letter
IsDurationString(s) ==
    /\ Len(s) >= 2
    /\ \A i \in 1..Len(s) - 1 : IsDigit(s[i])
    /\ s[Len(s)] \in DurationUnits

\* C23: constructing a Duration from a string that is not an integer
\* followed by one unit letter raises an error: it yields neither a Duration
\* without a millisecond value nor one parsed from a fragment of the string
C23_MalformedStringRaises ==
    (durpc = "done" /\ ~IsDurationString(durArg)) => durThrew

----------------------------------------------------------------------------
(* SpecWindowed: a WindowedCollection built empty, with or without a       *)
(* trigger, fed events one at a time and asked to aggregate and to ungroup *)

WindowedInit ==
    /\ PeriodIdle
    /\ WindowIdle
    /\ DayIdle
    /\ CollIdle
    /\ AlignIdle
    /\ RateIdle
    /\ QuantileIdle
    /\ ReducerIdle
    /\ DurationIdle
    /\ NodeIdle
    /\ options \in OnlineOptions
    /\ group \in BOOLEAN
    /\ group => options.window \in GroupedStreamWindows
    /\ collections = <<>>
    /\ toBeEmitted = <<>>
    /\ threw = FALSE
    /\ fed = <<>>
    /\ emitted = <<>>
    /\ discarded = {}
    /\ called = "new"
    /\ aggregated = NoAggregate
    /\ ungrouped = NoUngroup

\* collection.addEvent(event), one event less than Spec feeds
CallWindowedAddEvent ==
    /\ Len(fed) < (IF group THEN MaxEvents - 2 ELSE MaxEvents - 1)
    /\ AddEvent
    /\ called' = "addEvent"
    /\ aggregated' = NoAggregate
    /\ ungrouped' = NoUngroup

\* collection.aggregate({count: ["id", count()]})
CallAggregate ==
    /\ \E strict \in BOOLEAN : aggregated' = aggregate(collections, strict)
    /\ called' = "aggregate"
    /\ ungrouped' = NoUngroup
    /\ UNCHANGED wcVars

\* collection.ungroup()
CallUngroup ==
    /\ ungrouped' = ungroup(collections)
    /\ called' = "ungroup"
    /\ aggregated' = NoAggregate
    /\ UNCHANGED wcVars

WindowedNext ==
    /\ CallWindowedAddEvent \/ CallAggregate \/ CallUngroup
    /\ UNCHANGED <<periodVars, windowVars, dayVars, collVars, alignVars,
                   rateVars, quantileVars, reducerVars, durationVars,
                   nodeVars>>

SpecWindowed == WindowedInit /\ [][WindowedNext]_vars

----------------------------------------------------------------------------
(* WindowedCollection.aggregate and WindowedCollection.ungroup             *)

\* the output events of every group of an aggregate result, in order
RECURSIVE OutputsOf(_, _)
OutputsOf(groups, n) ==
    IF n = 0 THEN <<>>
    ELSE OutputsOf(groups, n - 1) \o groups[n].events

\* C24: aggregate(spec) returns, for every held bucket, exactly one output
\* event, keyed by the Index of the window portion of the bucket's key,
\* for keys "<groupKey>::<windowKey>" and keys "<windowKey>" alike; each
\* group holds one event per window of that group
C24_OneEventPerBucket ==
    called = "aggregate" =>
        /\ ~aggregated.threw
        /\ Len(OutputsOf(aggregated.groups, Len(aggregated.groups))) =
               Len(collections)
        /\ \A i \in 1..Len(collections) :
            \E g \in 1..Len(aggregated.groups) :
                /\ group => aggregated.groups[g].key =
                                KeyParts(collections[i].key).groupKey
                /\ Cardinality(
                     {j \in 1..Len(aggregated.groups[g].events) :
                        aggregated.groups[g].events[j].key =
                            index(WindowKeyOf(collections[i].key))}) = 1

\* C25: ungroup() returns a map with one entry per held bucket, keyed by
\* the window key alone and mapping to the bucket's collection; it has an
\* entry whenever a bucket is held
C25_OneEntryPerBucket ==
    called = "ungroup" =>
        /\ Len(ungrouped.entries) = Cardinality(Keys(collections))
        /\ \A i \in 1..Len(collections) :
            /\ Has(ungrouped.entries, WindowKeyOf(collections[i].key))
            /\ ~group =>
                Get(ungrouped.entries, WindowKeyOf(collections[i].key)) =
                    collections[i].events
        /\ collections # <<>> => ungrouped.entries # <<>>

----------------------------------------------------------------------------
(* WindowedCollection.addEvent when it throws                              *)

\* C26: a call of addEvent that raises an error leaves the held buckets as
\* they were before the call, the event added to none of them
C26_AtomicOnError ==
    [][threw' => collections' = collections]_vars

----------------------------------------------------------------------------
(* Collection.addEvent with dedup, on a key the Collection does not hold   *)

\* C27: addEvent(e, dedup) with dedup requested, on a Collection holding no
\* event with e's key, returns the Collection that addEvent(e) returns and
\* raises no error
C27_DedupOfNewKey ==
    [][(/\ call'.op = "addEvent"
        /\ call'.dedup # "none"
        /\ EventsOfKey(coll, call'.event.key) = <<>>)
       => /\ ~cthrew'
          /\ coll' = CollectionAddEvent(coll, call'.event, "none").collection
      ]_vars

----------------------------------------------------------------------------
(* The buckets a WindowedCollection holds                                  *)

\* the window of index k of wd, [k*f, k*f + d), contains t
WindowContains(wd, k, t) ==
    /\ RatLeq(RatMulInt(k, DurationValueOf(wd.period.frequency)),
              RatOfInt(t))
    /\ RatLess(RatOfInt(t),
               RatAdd(RatMulInt(k, DurationValueOf(wd.period.frequency)),
                      DurationValueOf(wd.duration)))

\* the indexes of the windows of wd that contain t; a frequency is at
\* least half a millisecond and a duration at most MaxMult milliseconds
WindowsContaining(wd, t) ==
    {k \in (-2 * MaxMult)..(2 * t + 1) : WindowContains(wd, k, t)}

\* the held buckets that store the event
BucketsStoring(e) ==
    {i \in 1..Len(collections) :
        \E j \in 1..Len(collections[i].events) : collections[i].events[j] = e}

\* C28: in every state reached by addEvent calls, each event of a held
\* bucket has its timestamp in the range [begin, end) that the bucket's
\* window key decodes to, no held bucket is empty, and the event added last
\* is stored in as many held buckets as there are windows containing its
\* timestamp (none of which has expired when it is added)
C28_BucketsHoldTheirWindows ==
    /\ \A i \in 1..Len(collections) :
        /\ collections[i].events # <<>>
        /\ StreamRanges[collections[i].key].defined
        /\ \A j \in 1..Len(collections[i].events) :
            /\ StreamRanges[collections[i].key].begin
                    <= collections[i].events[j].timestamp
            /\ collections[i].events[j].timestamp
                    < StreamRanges[collections[i].key].end
    /\ fed # <<>> =>
        Cardinality(BucketsStoring(fed[Len(fed)])) =
            Cardinality(WindowsContaining(options.window,
                                          fed[Len(fed)].timestamp))

----------------------------------------------------------------------------
(* A WindowedCollection without a trigger                                  *)

----------------------------------------------------------------------------
(* SpecNode: a graph of nodes built once, events handed to its input node  *)
(* one at a time, each call of set taken one notification at a time        *)

NodeInit ==
    /\ PeriodIdle
    /\ WindowIdle
    /\ StreamIdle
    /\ DayIdle
    /\ CollIdle
    /\ AlignIdle
    /\ RateIdle
    /\ QuantileIdle
    /\ ReducerIdle
    /\ DurationIdle
    /\ ReadIdle
    /\ nodes \in Graphs
    /\ frames = <<>>
    /\ sets = <<>>
    /\ callbacks = <<>>
    /\ inputs = <<>>

\* node.set(input) up to the forEach over the outputs: process has run
Entered(n, input) ==
    /\ sets' = Append(sets, [node |-> n, input |-> input])
    /\ callbacks' = callbacks \o Callbacks(nodes[n], input)

Top == frames[Len(frames)]

\* input.set(e) by the caller, once the call before it has returned
NodeSet ==
    /\ frames = <<>>
    /\ Len(inputs) < MaxEvents - 1
    /\ \E e \in 0..MaxOffset :
        /\ Entered(1, e)
        /\ frames' = <<Frame(1, process(nodes[1], e))>>
        /\ inputs' = Append(inputs, e)
    /\ UNCHANGED nodes

\* notify: node.set(output) for the next observer
NotifyObserver ==
    /\ frames # <<>>
    /\ Top.output <= Len(Top.outputs)
    /\ Top.next <= Len(nodes[Top.node].observers)
    /\ Entered(nodes[Top.node].observers[Top.next], Top.outputs[Top.output])
    /\ frames' =
        Append([frames EXCEPT ![Len(frames)].next = Top.next + 1],
               Frame(nodes[Top.node].observers[Top.next],
                     process(nodes[nodes[Top.node].observers[Top.next]],
                             Top.outputs[Top.output])))
    /\ UNCHANGED <<nodes, inputs>>

\* notify returns: outputs.forEach goes on to the next output
NextOutput ==
    /\ frames # <<>>
    /\ Top.output <= Len(Top.outputs)
    /\ Top.next > Len(nodes[Top.node].observers)
    /\ frames' = [frames EXCEPT ![Len(frames)].output = Top.output + 1,
                                ![Len(frames)].next = 1]
    /\ UNCHANGED <<nodes, sets, callbacks, inputs>>

\* set returns
SetReturns ==
    /\ frames # <<>>
    /\ Top.output > Len(Top.outputs)
    /\ frames' = SubSeq(frames, 1, Len(frames) - 1)
    /\ UNCHANGED <<nodes, sets, callbacks, inputs>>

NodeNext ==
    /\ NodeSet \/ NotifyObserver \/ NextOutput \/ SetReturns
    /\ UNCHANGED <<periodVars, windowVars, wcVars, dayVars, collVars,
                   alignVars, rateVars, quantileVars, reducerVars,
                   durationVars, readVars>>

SpecNode == NodeInit /\ [][NodeNext]_vars

----------------------------------------------------------------------------
(* The order in which a Node graph delivers                                *)

\* the calls of set that node.set(input) makes, itself first: for each
\* output in order, for each observer in order, all that the observer's
\* set makes
RECURSIVE Deliveries(_, _), OverOutputs(_, _, _), OverObservers(_, _, _)
Deliveries(n, input) ==
    <<[node |-> n, input |-> input]>>
        \o OverOutputs(n, process(nodes[n], input), 1)

OverOutputs(n, outputs, o) ==
    IF o > Len(outputs) THEN <<>>
    ELSE OverObservers(n, outputs[o], 1) \o OverOutputs(n, outputs, o + 1)

OverObservers(n, output, k) ==
    IF k > Len(nodes[n].observers) THEN <<>>
    ELSE Deliveries(nodes[n].observers[k], output)
            \o OverObservers(n, output, k + 1)

\* the deliveries of the first n inputs
RECURSIVE DeliveriesOfInputs(_)
DeliveriesOfInputs(n) ==
    IF n = 0 THEN <<>>
    ELSE DeliveriesOfInputs(n - 1) \o Deliveries(1, inputs[n])

\* f(e) for the first n inputs e that satisfy p, in input order
RECURSIVE MappedFiltered(_)
MappedFiltered(n) ==
    IF n = 0 THEN <<>>
    ELSE IF Predicate(nodes[2].param, inputs[n])
         THEN Append(MappedFiltered(n - 1),
                     [callback |-> "callback",
                      event |-> Mapper(nodes[3].param, inputs[n])])
         ELSE MappedFiltered(n - 1)

IsPrefixOf(s, t) == Len(s) <= Len(t) /\ s = SubSeq(t, 1, Len(s))

\* C30: set delivers each output of process, in output order, to every
\* observer in the order added, all that one delivery sets off before the
\* next; the callback of the chain EventInputNode -> FilterNode(p) ->
\* MapNode(f) -> EventOutputNode is invoked once for each input event that
\* satisfies p, with f(event), in input order, and for no other event
C30_PushOrder ==
    /\ IsPrefixOf(sets, DeliveriesOfInputs(Len(inputs)))
    /\ frames = <<>> =>
        /\ sets = DeliveriesOfInputs(Len(inputs))
        /\ SelectSeq(callbacks, LAMBDA c : c.callback = "callback")
                = MappedFiltered(Len(inputs))

\* three events have gone through the chain with the fan beside it, one of
\* them stopped by the filter, and every call of set has returned
C30_Witness ==
    /\ frames = <<>>
    /\ Len(nodes) > 4
    /\ Len(inputs) = MaxEvents - 1
    /\ \E i \in 1..Len(inputs) : ~Predicate(nodes[2].param, inputs[i])
    /\ Len(MappedFiltered(Len(inputs))) = 2
    /\ Len(callbacks) = 2 + 4 * Len(inputs)
====
